---- MODULE Spec2Model ----
(***************************************************************************)
(* A model of setuptools/msvc9_support.py: the reconstruction of the       *)
(* Microsoft Visual C++ build environment (INCLUDE, LIB, LIBPATH, PATH)    *)
(* from the registry, the filesystem and the process environment.          *)
(*                                                                         *)
(* Python str values are TLA+ strings; TLC evaluates Len, SubSeq and \o on *)
(* them, so slicing, find, split, join and formatting are computed on the  *)
(* characters.  Versions (Python floats such as 9.0, 14.0) are integers in *)
(* tenths: 90, 140.  A call's outcome is a record: Ok(v) for a returned    *)
(* value, Raise(kind, msg) for an exception.                               *)
(***************************************************************************)
EXTENDS Integers, Sequences, FiniteSets, TLC

VARIABLES
    registry,   \* winreg: hive -> key path -> [values, subkeys]
    dirs,       \* the paths os.path.isdir answers True for
    files,      \* the paths os.path.isfile answers True for
    listing,    \* os.listdir: path -> names, for the paths that can be listed
    environ,    \* os.environ: the set variables and their values
    args,       \* the arguments of the call under way
    pc,         \* where the call under way stands
    self,       \* the instance under construction / constructed
    env,        \* return_env's dict, as far as it is built
    ret,        \* what the call returned or raised
    unpatched,  \* the module-level dict 'unpatched': key -> saved function
    distutils   \* the distutils compiler modules: module -> attribute -> function

vars == <<registry, dirs, files, listing, environ, args, pc, self, env, ret,
          unpatched, distutils>>

world == <<registry, dirs, files, listing, environ>>

patched == <<unpatched, distutils>>

\* The functions of distutils this module hooks, named as Python names them.
Original(module, name) == "distutils." \o module \o "." \o name

\* distutils as imported at lines 13-21: a compiler module whose import
\* failed leaves no name behind, one that was imported has its own functions.
Imported(has9, has14) ==
    (IF has9
     THEN "msvc9compiler" :>
              ("find_vcvarsall" :> Original("msvc9compiler", "find_vcvarsall")
               @@ "query_vcvarsall" :> Original("msvc9compiler", "query_vcvarsall"))
     ELSE <<>>)
    @@
    (IF has14
     THEN "msvc14compiler" :>
              ("_get_vc_env" :> Original("_msvccompiler", "_get_vc_env"))
     ELSE <<>>)

\* The module as imported and never patched (line 23: unpatched = dict()).
Unpatched == <<>>

-----------------------------------------------------------------------------
(* Outcomes of a call *)

PlatformError == "DistutilsPlatformError"

Ok(v) == [exc |-> "none", val |-> v]

Raise(kind, msg) == [exc |-> kind, msg |-> msg]

IsOk(r) == r.exc = "none"

NoRet == [exc |-> "pending"]

(* Python iterables handed to itertools.chain.from_iterable *)
PyList(items) == [type |-> "list", items |-> items]

PyStr(s) == [type |-> "str", s |-> s]

-----------------------------------------------------------------------------
(* str operations *)

CharAt(s, i) == SubSeq(s, i, i)

\* iterating a str yields its characters, each a str of length 1
Chars(s) == [i \in 1..Len(s) |-> CharAt(s, i)]

\* list(v) for an iterable v
Iterate(v) == IF v.type = "list" THEN v.items ELSE Chars(v.s)

\* s.find(c) for a single character c: 0-based index of the first c, -1 if none
Find(s, c) ==
    LET hits == {i \in 1..Len(s) : CharAt(s, i) = c}
    IN  IF hits = {} THEN -1
        ELSE (CHOOSE i \in hits : \A j \in hits : i <= j) - 1

\* s.rfind(c): 0-based index of the last c, -1 if none
RFind(s, c) ==
    LET hits == {i \in 1..Len(s) : CharAt(s, i) = c}
    IN  IF hits = {} THEN -1
        ELSE (CHOOSE i \in hits : \A j \in hits : i >= j) - 1

\* s[k:] for 0 <= k
SliceFrom(s, k) == SubSeq(s, k + 1, Len(s))

\* s[:k] for 0 <= k; a negative k counts from the end
SliceTo(s, k) ==
    IF k >= Len(s) THEN s
    ELSE IF k >= 0 THEN SubSeq(s, 1, k)
    ELSE SubSeq(s, 1, Len(s) + k)

RECURSIVE SplitFrom(_, _, _)
\* the pieces of s from 1-based position i on
SplitFrom(s, sp, i) ==
    LET hits == {j \in i..Len(s) : CharAt(s, j) = sp}
        k == CHOOSE j \in hits : \A h \in hits : j <= h
    IN  IF hits = {} THEN <<SubSeq(s, i, Len(s))>>
        ELSE <<SubSeq(s, i, k - 1)>> \o SplitFrom(s, sp, k + 1)

\* s.split(sp) for a single character sp: never empty, '' splits to ['']
Split(s, sp) == CHOOSE r \in {SplitFrom(x, sp, 1) : x \in {s}} : TRUE

RECURSIVE StrJoinFrom(_, _, _)
StrJoinFrom(items, sp, i) ==
    IF i > Len(items) THEN ""
    ELSE IF i = Len(items) THEN items[i]
    ELSE items[i] \o sp \o StrJoinFrom(items, sp, i + 1)

\* sp.join(items)
StrJoin(items, sp) == CHOOSE r \in {StrJoinFrom(x, sp, 1) : x \in {items}} : TRUE

LowerCase == "abcdefghijklmnopqrstuvwxyz"

UpperCase == "ABCDEFGHIJKLMNOPQRSTUVWXYZ"

\* the letters str.upper and str.lower change, and what they become
UpperOf ==
    [c \in {CharAt(LowerCase, i) : i \in 1..26} |-> CharAt(UpperCase, Find(LowerCase, c) + 1)]

LowerOf ==
    [c \in {CharAt(UpperCase, i) : i \in 1..26} |-> CharAt(LowerCase, Find(UpperCase, c) + 1)]

UpperChar(c) == IF c \in DOMAIN UpperOf THEN UpperOf[c] ELSE c

LowerChar(c) == IF c \in DOMAIN LowerOf THEN LowerOf[c] ELSE c

RECURSIVE MapChars(_, _, _)
MapChars(s, upper, i) ==
    IF i > Len(s) THEN ""
    ELSE (IF upper THEN UpperChar(CharAt(s, i)) ELSE LowerChar(CharAt(s, i)))
         \o MapChars(s, upper, i + 1)

UpperIdentity(s) == s

\* s.upper()
Upper(s) == CHOOSE r \in {MapChars(x, TRUE, 1) : x \in {s}} : TRUE

\* s.lower()
Lower(s) == CHOOSE r \in {MapChars(x, FALSE, 1) : x \in {s}} : TRUE

-----------------------------------------------------------------------------
(* os, os.path *)

pathsep == ";"

sep == "\\"

seps == {"\\", "/"}

IsDirNever(p) == FALSE

\* os.path.isdir
isdir(p) == p \in dirs

\* os.path.isfile
isfile(p) == p \in files

\* os.environ.get(name, default)
EnvGet(name, default) ==
    IF name \in DOMAIN environ THEN environ[name] ELSE default

-----------------------------------------------------------------------------
(* EnvironmentInfo._build_paths and _unique_everseen *)

RECURSIVE FlattenFrom(_, _)
FlattenFrom(iterables, i) ==
    IF i > Len(iterables) THEN <<>>
    ELSE Iterate(iterables[i]) \o FlattenFrom(iterables, i + 1)

\* itertools.chain.from_iterable
Flatten(iterables) == CHOOSE r \in {FlattenFrom(x, 1) : x \in {iterables}} : TRUE

KeepAll(items) == items

RECURSIVE UniqueFrom(_, _)
\* the elements from position i on that no earlier position holds
UniqueFrom(items, i) ==
    IF i > Len(items) THEN <<>>
    ELSE IF \E j \in 1..(i - 1) : items[j] = items[i] THEN UniqueFrom(items, i + 1)
    ELSE <<items[i]>> \o UniqueFrom(items, i + 1)

\* _unique_everseen(iterable), key=None
unique_everseen(items) == CHOOSE r \in {UniqueFrom(x, 1) : x \in {items}} : TRUE

BuildPathsOf(name, spec_paths, env_paths) ==
    LET extant_paths == SelectSeq(spec_paths \o env_paths, isdir)
    IN  IF extant_paths = <<>>
        THEN Raise(PlatformError, Upper(name) \o " environment variable is empty")
        ELSE Ok(StrJoin(unique_everseen(extant_paths), pathsep))

\* EnvironmentInfo._build_paths
build_paths(name, spec_path_lists) ==
    CHOOSE r \in {BuildPathsOf(name, sp, ep) :
                    sp \in {Flatten(spec_path_lists)},
                    ep \in {Split(EnvGet(name, ""), pathsep)}} : TRUE

-----------------------------------------------------------------------------
(* Specification SpecBuildPaths: _build_paths on bounded inputs *)

MaxLists == 2

CategoryNames == {"include", "lib", "libpath", "path"}

\* candidate lists a facet can hand in: empty, with a duplicate, with a
\* directory that differs from another only in case
CandidateLists ==
    { <<>>, <<"A", "B", "A">>, <<"C">>, <<"a", "B">> }

EnvValues == {"", "C;A", "a;;A;D"}

DirUniverse == {"A", "a", "B", "C", "D"}

SeqsUpTo(S, n) == UNION {[1..k -> S] : k \in 0..n}

NoRegistry == <<>>

InitBuildPaths ==
    /\ registry = NoRegistry
    /\ dirs \in SUBSET DirUniverse
    /\ files = {}
    /\ listing = <<>>
    /\ \E set \in SUBSET CategoryNames :
         \E v \in EnvValues : environ = [n \in set |-> v]
    /\ \E name \in CategoryNames :
         \E lists \in SeqsUpTo(CandidateLists, MaxLists) :
           args = [name |-> name,
                   spec_path_lists |-> [i \in DOMAIN lists |-> PyList(lists[i])]]
    /\ pc = "start"
    /\ self = <<>>
    /\ env = <<>>
    /\ ret = NoRet
    /\ unpatched = Unpatched
    /\ distutils = Imported(TRUE, TRUE)

CallBuildPaths ==
    /\ pc = "start"
    /\ ret' = build_paths(args.name, args.spec_path_lists)
    /\ pc' = "done"
    /\ UNCHANGED <<world, patched, args, self, env>>

NextBuildPaths == CallBuildPaths

SpecBuildPaths == InitBuildPaths /\ [][NextBuildPaths]_vars

(* What _build_paths was given, read off the inputs *)

\* the entries of each modelled value of the environment variable
EnvEntriesOf ==
    [v \in EnvValues |->
        CASE v = "" -> <<"">>
          [] v = "C;A" -> <<"C", "A">>
          [] v = "a;;A;D" -> <<"a", "", "A", "D">>]

BP_EnvEntries ==
    IF args.name \in DOMAIN environ THEN EnvEntriesOf[environ[args.name]]
    ELSE <<"">>

RECURSIVE Concat(_)
Concat(lists) ==
    IF lists = <<>> THEN <<>> ELSE Head(lists).items \o Concat(Tail(lists))

BP_Candidates == Concat(args.spec_path_lists)

BP_Source == BP_Candidates \o BP_EnvEntries

Range(f) == {f[i] : i \in DOMAIN f}

FirstIndex(f, x) == CHOOSE i \in DOMAIN f : f[i] = x /\ \A j \in 1..(i - 1) : f[j] # x

\* the existing directories of BP_Source, each once, in first-occurrence order
BP_Expected ==
    LET S == {p \in Range(BP_Source) : p \in dirs}
        rank(p) == Cardinality({q \in S :
                       FirstIndex(BP_Source, q) < FirstIndex(BP_Source, p)}) + 1
    IN  [i \in 1..Cardinality(S) |-> CHOOSE p \in S : rank(p) = i]

BP_Returned == pc = "done" /\ "name" \in DOMAIN args /\ IsOk(ret)

\* C1: whenever _build_paths returns, the result is the flattened candidates
\* followed by the environment variable's entries, filtered to the existing
\* directories, each kept once at its first occurrence, joined with ';'; so
\* it holds no non-existent directory, no directory twice, and every existing
\* candidate before every entry that only the environment variable names.
C1_BuildPathsResult ==
    BP_Returned =>
        LET out == Split(ret.val, ";")
        IN  /\ ret.val = StrJoin(BP_Expected, ";")
            /\ \A i \in DOMAIN out : out[i] \in dirs
            /\ \A i, j \in DOMAIN out : i # j => out[i] # out[j]
            /\ \A i, j \in DOMAIN out :
                   (/\ out[i] \in Range(BP_Candidates)
                    /\ out[j] \notin Range(BP_Candidates)) => i < j

\* C1 witness: a duplicate and a missing directory among the candidates, two
\* directories differing only in case, and an entry only the variable names.
C1_Witness ==
    /\ BP_Returned
    /\ BP_Candidates = <<"A", "B", "A", "a", "B">>
    /\ BP_EnvEntries = <<"a", "", "A", "D">>
    /\ dirs = {"A", "a", "D"}
    /\ ret.val = "A;a;D"

CategoryLabel ==
    [n \in CategoryNames |->
        CASE n = "include" -> "INCLUDE"
          [] n = "lib" -> "LIB"
          [] n = "libpath" -> "LIBPATH"
          [] n = "path" -> "PATH"]

BP_Done == pc = "done" /\ "name" \in DOMAIN args /\ "spec_path_lists" \in DOMAIN args

\* C2: _build_paths raises the platform error, its message naming the
\* upper-cased category, exactly when no candidate and no entry of the
\* environment variable is an existing directory; it never returns ''.
C2_BuildPathsRaises ==
    BP_Done =>
        /\ (~IsOk(ret)) <=> (\A p \in Range(BP_Source) : p \notin dirs)
        /\ (~IsOk(ret)) =>
               /\ ret.exc = "DistutilsPlatformError"
               /\ ret.msg = CategoryLabel[args.name] \o " environment variable is empty"
        /\ IsOk(ret) => ret.val # ""

\* C2 witness: only non-existent candidates, the variable unset, and the raise.
C2_Witness ==
    /\ BP_Done
    /\ BP_Candidates = <<"C", "a", "B">>
    /\ args.name = "libpath"
    /\ args.name \notin DOMAIN environ
    /\ dirs = {"A", "D"}
    /\ ret = Raise("DistutilsPlatformError", "LIBPATH environment variable is empty")

-----------------------------------------------------------------------------
(* os.path.join (ntpath), as the module uses it: drive letters, no UNC *)

HasDrive(p) == Len(p) >= 2 /\ CharAt(p, 2) = ":"

\* os.path.splitdrive
Drive(p) == IF HasDrive(p) THEN SubSeq(p, 1, 2) ELSE ""

NoDrive(p) == IF HasDrive(p) THEN SliceFrom(p, 2) ELSE p

JoinValues(a, b) ==
    LET rd == Drive(a)
        rp == NoDrive(a)
        pd == Drive(b)
        pp == NoDrive(b)
        under == (IF rp # "" /\ CharAt(rp, Len(rp)) \notin seps
                  THEN rp \o sep ELSE rp) \o pp
    IN  IF pp # "" /\ CharAt(pp, 1) \in seps
        THEN (IF pd # "" \/ rd = "" THEN pd ELSE rd) \o pp
        ELSE IF pd # "" /\ pd # rd
        THEN (IF Lower(pd) # Lower(rd) THEN pd \o pp ELSE pd \o under)
        ELSE rd \o under

\* os.path.join(a, b); each argument is evaluated once
Join(a, b) == CHOOSE r \in {JoinValues(x, y) : x \in {a}, y \in {b}} : TRUE

Join3(a, b, c) == Join(Join(a, b), c)

-----------------------------------------------------------------------------
(* PlatformInfo *)

\* PlatformInfo.current_cpu, read from the environment
current_cpu == Lower(environ["processor_architecture"])

current_is_x86 == current_cpu = "x86"

-----------------------------------------------------------------------------
(* RegistryInfo *)

HKEYS_Reversed ==
    <<"HKEY_CLASSES_ROOT", "HKEY_LOCAL_MACHINE", "HKEY_CURRENT_USER", "HKEY_USERS">>

HKEYS ==
    <<"HKEY_USERS", "HKEY_CURRENT_USER", "HKEY_LOCAL_MACHINE", "HKEY_CLASSES_ROOT">>

Hives == {HKEYS[i] : i \in DOMAIN HKEYS}

ri_microsoft ==
    Join3("Software", IF current_is_x86 THEN "" ELSE "Wow6432Node", "Microsoft")

ri_visualstudio == Join(ri_microsoft, "VisualStudio")

ri_sxs == Join(ri_visualstudio, "SxS")

ri_vc == Join(ri_sxs, "VC7")

ri_vs == Join(ri_sxs, "VS7")

ri_vc_for_python == Join(ri_microsoft, "DevDiv\\VCForPython")

ri_microsoft_sdk == Join(ri_microsoft, "Microsoft SDKs")

ri_windows_sdk == Join(ri_microsoft_sdk, "Windows")

ri_netfx_sdk == Join(ri_microsoft_sdk, "NETFXSDK")

ri_windows_kits_roots == Join(ri_microsoft, "Windows Kits\\Installed Roots")

\* Python's None, and a value that is not None
None == [found |-> FALSE]

Some(v) == [found |-> TRUE, val |-> v]

\* bool(m) for m None or a str
Truthy(m) == m.found /\ m.val # ""

\* m or default
OrElse(m, default) == IF Truthy(m) THEN m.val ELSE default

\* a registry key: its values in enumeration order, and its subkey names
RegKey(values, subkeys) == [values |-> values, subkeys |-> subkeys]

RegValue(name, data) == [name |-> name, data |-> data]

\* winreg.OpenKey succeeds
KeyExists(hkey, key) == key \in DOMAIN registry[hkey]

\* winreg.QueryValueEx succeeds
ValueExists(hkey, key, name) ==
    \E i \in DOMAIN registry[hkey][key].values :
        registry[hkey][key].values[i].name = name

QueryValueEx(hkey, key, name) ==
    LET vs == registry[hkey][key].values
    IN  vs[CHOOSE i \in DOMAIN vs : vs[i].name = name].data

RECURSIVE LookupStopAtKey(_, _, _)
LookupStopAtKey(i, key, name) ==
    IF i > Len(HKEYS) THEN None
    ELSE IF ~KeyExists(HKEYS[i], key) THEN LookupStopAtKey(i + 1, key, name)
    ELSE IF ValueExists(HKEYS[i], key, name)
    THEN Some(QueryValueEx(HKEYS[i], key, name))
    ELSE None

LookupStopAtKey1(key, name) == LookupStopAtKey(1, key, name)

RECURSIVE LookupFrom(_, _, _)
\* the loop of RegistryInfo.lookup from the i-th hive on
LookupFrom(i, key, name) ==
    IF i > Len(HKEYS) THEN None
    ELSE IF ~KeyExists(HKEYS[i], key) THEN LookupFrom(i + 1, key, name)
    ELSE IF ValueExists(HKEYS[i], key, name)
    THEN Some(QueryValueEx(HKEYS[i], key, name))
    ELSE LookupFrom(i + 1, key, name)

\* RegistryInfo.lookup
lookup(key, name) == LookupFrom(1, key, name)

-----------------------------------------------------------------------------
(* Specification SpecLookup: RegistryInfo.lookup on bounded registries *)

BaseEnviron(cpu) ==
    [n \in {"processor_architecture", "WinDir", "ProgramFiles"} |->
        CASE n = "processor_architecture" -> cpu
          [] n = "WinDir" -> "C:\\Windows"
          [] n = "ProgramFiles" -> "C:\\Program Files"]

CpuValues == {"x86", "AMD64"}

\* what one hive can hold under the VC7 key: no key, a key without values,
\* a key with one value, with an empty value, or with two values
HiveVC7Contents(h) ==
    { <<>>,
      <<RegKey(<<>>, <<>>)>>,
      <<RegKey(<<RegValue("9.0", h \o "\\VC9")>>, <<>>)>>,
      <<RegKey(<<RegValue("14.0", "")>>, <<>>)>>,
      <<RegKey(<<RegValue("9.0", h \o "\\VC9"), RegValue("14.0", h \o "\\VC14")>>,
               <<>>)>> }

\* one hive: the VC7 key as chosen, and a VS7 key that holds the same names
HiveWith(h, vc7) ==
    LET vs7 == RegKey(<<RegValue("9.0", h \o "\\VS9"), RegValue("14.0", h \o "\\VS14")>>,
                      <<>>)
    IN  IF vc7 = <<>> THEN [k \in {ri_vs} |-> vs7]
        ELSE [k \in {ri_vc, ri_vs} |-> IF k = ri_vc THEN vc7[1] ELSE vs7]

InitLookup ==
    /\ \E cpu \in CpuValues : environ = BaseEnviron(cpu)
    /\ \E c1 \in HiveVC7Contents(HKEYS[1]), c2 \in HiveVC7Contents(HKEYS[2]),
          c3 \in HiveVC7Contents(HKEYS[3]), c4 \in HiveVC7Contents(HKEYS[4]) :
         registry = [h \in Hives |->
                        HiveWith(h, CASE h = HKEYS[1] -> c1 [] h = HKEYS[2] -> c2
                                      [] h = HKEYS[3] -> c3 [] h = HKEYS[4] -> c4)]
    /\ dirs = {}
    /\ files = {}
    /\ listing = <<>>
    /\ args = <<>>
    /\ pc = "start"
    /\ self = <<>>
    /\ env = <<>>
    /\ ret = NoRet
    /\ unpatched = Unpatched
    /\ distutils = Imported(TRUE, TRUE)

CallLookup ==
    /\ pc = "start"
    /\ \E key \in {ri_vc, Join(ri_vc_for_python, "9.0")} : \E name \in {"9.0", "14.0"} :
         /\ args' = [key |-> key, name |-> name]
         /\ ret' = Ok(lookup(key, name))
    /\ pc' = "done"
    /\ UNCHANGED <<world, patched, self, env>>

NextLookup == CallLookup

SpecLookup == InitLookup /\ [][NextLookup]_vars

ProbeOrder ==
    <<"HKEY_USERS", "HKEY_CURRENT_USER", "HKEY_LOCAL_MACHINE", "HKEY_CLASSES_ROOT">>

\* hive h holds the key and, under it, the named value
HasBoth(h) ==
    /\ args.key \in DOMAIN registry[h]
    /\ \E e \in Range(registry[h][args.key].values) : e.name = args.name

DataIn(h) ==
    (CHOOSE e \in Range(registry[h][args.key].values) : e.name = args.name).data

LookupDone == pc = "done" /\ "key" \in DOMAIN args

\* C5: lookup probes HKEY_USERS, HKEY_CURRENT_USER, HKEY_LOCAL_MACHINE,
\* HKEY_CLASSES_ROOT in this order and returns the value of the first hive
\* that holds both the key and the named value, skipping a hive whose key is
\* missing or lacks the value; when no hive holds both it returns None; it
\* raises nothing.
C5_LookupFirstHive ==
    LookupDone =>
        /\ IsOk(ret)
        /\ (\A i \in 1..4 : ~HasBoth(ProbeOrder[i])) => ret.val = None
        /\ \A i \in 1..4 :
              (HasBoth(ProbeOrder[i]) /\ \A j \in 1..(i - 1) : ~HasBoth(ProbeOrder[j]))
                  => ret.val = Some(DataIn(ProbeOrder[i]))

\* C5 witness: HKEY_USERS has the key without the value, HKEY_CURRENT_USER
\* has no key, HKEY_LOCAL_MACHINE and HKEY_CLASSES_ROOT both hold the value.
C5_Witness ==
    /\ LookupDone
    /\ args.key \in DOMAIN registry["HKEY_USERS"]
    /\ ~HasBoth("HKEY_USERS")
    /\ args.key \notin DOMAIN registry["HKEY_CURRENT_USER"]
    /\ HasBoth("HKEY_LOCAL_MACHINE")
    /\ HasBoth("HKEY_CLASSES_ROOT")
    /\ ret = Ok(Some("HKEY_LOCAL_MACHINE\\VC9"))

-----------------------------------------------------------------------------
(* float(name), '%0.1f' % version *)

Digits == "0123456789"

DigitOf == [c \in {CharAt(Digits, i) : i \in 1..10} |-> Find(Digits, c)]

\* the value of a digit, -1 for another character
DigitVal(c) == IF c \in DOMAIN DigitOf THEN DigitOf[c] ELSE -1

IsDigits(s) == \A i \in 1..Len(s) : DigitVal(CharAt(s, i)) # -1

RECURSIVE IntVal(_, _)
\* the number the first n digits of s write
IntVal(s, n) == IF n = 0 THEN 0 ELSE IntVal(s, n - 1) * 10 + DigitVal(CharAt(s, n))

\* the float that sign, integer part ip and fraction part fp write, in tenths
\* (the versions the registry names carry at most one fractional digit);
\* ok is FALSE where float raises ValueError
FloatOfParts(negative, ip, fp) ==
    LET mag == IntVal(ip, Len(ip)) * 10 + (IF fp = "" THEN 0 ELSE DigitVal(CharAt(fp, 1)))
    IN  IF IsDigits(ip) /\ IsDigits(fp) /\ Len(ip) + Len(fp) >= 1
        THEN [ok |-> TRUE, val |-> IF negative THEN 0 - mag ELSE mag]
        ELSE [ok |-> FALSE]

\* float(s) for decimal notation [sign] digits [. digits]
ParseUnsigned(negative, body) ==
    CHOOSE r \in {IF d = -1 THEN FloatOfParts(negative, body, "")
                  ELSE FloatOfParts(negative, SliceTo(body, d), SliceFrom(body, d + 1)) :
                  d \in {Find(body, ".")}} : TRUE

ParseFloatOf(s) ==
    IF s # "" /\ CharAt(s, 1) \in {"+", "-"}
    THEN ParseUnsigned(CharAt(s, 1) = "-", SliceFrom(s, 1))
    ELSE ParseUnsigned(FALSE, s)

ParseFloat(s) == CHOOSE r \in {ParseFloatOf(x) : x \in {s}} : TRUE

\* '%0.1f' % v for v >= 0 in tenths
Fmt01f(v) == ToString(v \div 10) \o "." \o ToString(v % 10)

\* '%d' % v: the integer part
FmtD(v) == ToString(v \div 10)

-----------------------------------------------------------------------------
(* SystemInfo.find_availables_vcver, SystemInfo.__init__,                  *)
(* EnvironmentInfo.__init__                                                *)

\* one pass of "ver = float(name); if ver not in vsvers: vsvers.append(ver)"
AddVersion(vsvers, name) ==
    LET p == ParseFloat(name)
    IN  IF p.ok /\ p.val \notin Range(vsvers) THEN Append(vsvers, p.val) ELSE vsvers

RECURSIVE AddVersionsFrom(_, _, _)
AddVersionsFrom(names, i, vsvers) ==
    IF i > Len(names) THEN vsvers
    ELSE CHOOSE r \in {AddVersionsFrom(names, i + 1, v) :
                        v \in {AddVersion(vsvers, names[i])}} : TRUE

ValueNames(hkey, key) ==
    [i \in DOMAIN registry[hkey][key].values |-> registry[hkey][key].values[i].name]

\* the body of the loop over vckeys for one hive and one key
ScanKey(hkey, key, vsvers) ==
    IF ~KeyExists(hkey, key) THEN vsvers
    ELSE CHOOSE r \in {AddVersionsFrom(registry[hkey][key].subkeys, 1, v) :
                        v \in {AddVersionsFrom(ValueNames(hkey, key), 1, vsvers)}} : TRUE

RECURSIVE ScanHivesFrom(_, _, _)
\* the loop over self.ri.HKEYS from the i-th hive on
ScanHivesFrom(i, vckeys, vsvers) ==
    IF i > Len(HKEYS) THEN vsvers
    ELSE CHOOSE r \in {ScanHivesFrom(i + 1, vckeys, w) :
                        w \in {ScanKey(HKEYS[i], vckeys[2], v) :
                                 v \in {ScanKey(HKEYS[i], vckeys[1], vsvers)}}} : TRUE

Unsorted(s) == s

\* sorted(vsvers)
sorted(s) == SortSeq(s, LAMBDA a, b : a < b)

find_availables_vcver ==
    CHOOSE r \in {sorted(ScanHivesFrom(1, vckeys, <<>>)) :
                    vckeys \in {<<ri_vc, ri_vc_for_python>>}} : TRUE

\* bool(v) for v None or a float
TruthyNumber(m) == m.found /\ m.val # 0

SystemInfoFirstFound(vcver) ==
    IF TruthyNumber(vcver) THEN [ret |-> Ok("SystemInfo"), vcver |-> vcver.val, enumerated |-> FALSE]
    ELSE LET av == find_availables_vcver
         IN  IF av = <<>>
             THEN [ret |-> Raise(PlatformError, "No Microsoft Visual C++ version found"),
                   enumerated |-> TRUE]
             ELSE [ret |-> Ok("SystemInfo"), vcver |-> av[1], enumerated |-> TRUE]

\* SystemInfo.__init__: the outcome, self.vcver, and whether the registry was
\* enumerated on the way
SystemInfo(vcver) ==
    IF TruthyNumber(vcver) THEN [ret |-> Ok("SystemInfo"), vcver |-> vcver.val, enumerated |-> FALSE]
    ELSE LET av == find_availables_vcver
         IN  IF av = <<>>
             THEN [ret |-> Raise(PlatformError, "No Microsoft Visual C++ version found"),
                   enumerated |-> TRUE]
             ELSE [ret |-> Ok("SystemInfo"), vcver |-> av[Len(av)], enumerated |-> TRUE]

TooOldInclusive(vcver, vcvermin) == TruthyNumber(vcvermin) /\ vcver <= vcvermin.val

\* "if vcvermin: if self.vcver < vcvermin"
TooOld(vcver, vcvermin) == TruthyNumber(vcvermin) /\ vcver < vcvermin.val

\* EnvironmentInfo.__init__
EnvironmentInfoOf(arch, si, vcvermin) ==
    IF ~IsOk(si.ret) THEN [ret |-> si.ret, arch |-> Lower(arch), enumerated |-> si.enumerated]
    ELSE IF TooOld(si.vcver, vcvermin)
    THEN [ret |-> Raise(PlatformError, "No suitable Microsoft Visual C++ version found"),
          arch |-> Lower(arch), vcver |-> si.vcver, enumerated |-> si.enumerated]
    ELSE [ret |-> Ok("EnvironmentInfo"), arch |-> Lower(arch), vcver |-> si.vcver,
          enumerated |-> si.enumerated]

EnvironmentInfo(arch, vcver, vcvermin) ==
    CHOOSE r \in {EnvironmentInfoOf(arch, si, vcvermin) : si \in {SystemInfo(vcver)}} : TRUE

-----------------------------------------------------------------------------
(* Specification SpecVersions: version discovery and construction *)

VC7Contents ==
    { <<>>,
      <<RegKey(<<RegValue("FrameworkDir32", "C:\\Windows\\Microsoft.NET\\Framework"),
                 RegValue("14.0", "D:\\VS14\\VC\\")>>, <<>>)>>,
      <<RegKey(<<RegValue("12.0", "D:\\VS12\\VC\\"), RegValue("9", "D:\\VS9\\VC\\")>>,
               <<"abc", "10.0">>)>> }

VCForPythonContents ==
    { <<>>,
      <<RegKey(<<>>, <<"9.0">>)>>,
      <<RegKey(<<RegValue("x64", "")>>, <<"10.0", "9.0", "9.0a">>)>> }

\* one hive holding the two keys as chosen (<<>>: the key is missing)
VersionHive(keys, vc7, py) ==
    [k \in (IF vc7 = <<>> THEN {} ELSE {keys[1]}) \cup
           (IF py = <<>> THEN {} ELSE {keys[2]}) |->
        IF k = keys[1] /\ vc7 # <<>> THEN vc7[1] ELSE py[1]]

\* the hives probed first and last hold at most the first non-empty content
Sparse(S) == {c \in S : c = <<>> \/ \E v \in DOMAIN c[1].values : c[1].values[v].name \in {"14.0", "x64"}}

InitVersions ==
    /\ \E cpu \in CpuValues : environ = BaseEnviron(cpu)
    /\ \E keys \in {<<ri_vc, ri_vc_for_python>>} :
       \E a1 \in Sparse(VC7Contents), a2 \in VC7Contents, a3 \in VC7Contents,
          a4 \in Sparse(VC7Contents),
          b1 \in Sparse(VCForPythonContents), b2 \in VCForPythonContents,
          b3 \in VCForPythonContents, b4 \in Sparse(VCForPythonContents) :
         registry = [h \in Hives |->
                        CASE h = HKEYS[1] -> VersionHive(keys, a1, b1)
                          [] h = HKEYS[2] -> VersionHive(keys, a2, b2)
                          [] h = HKEYS[3] -> VersionHive(keys, a3, b3)
                          [] h = HKEYS[4] -> VersionHive(keys, a4, b4)]
    /\ dirs = {}
    /\ files = {}
    /\ listing = <<>>
    /\ args = <<>>
    /\ pc = "start"
    /\ self = <<>>
    /\ env = <<>>
    /\ ret = NoRet
    /\ unpatched = Unpatched
    /\ distutils = Imported(TRUE, TRUE)

\* the versions a caller asks for (positive: distutils passes the version
\* Python was built with) and the architectures
VersionArgs == {None, Some(90), Some(140)}

MinVersionArgs == {None, Some(100), Some(140)}

ArchArgs == {"x86", "x86_AMD64"}

CallFindAvailables ==
    /\ pc = "start"
    /\ args' = [op |-> "find_availables_vcver"]
    /\ ret' = Ok(find_availables_vcver)
    /\ pc' = "done"
    /\ UNCHANGED <<world, patched, self, env>>

NewSystemInfo ==
    /\ pc = "start"
    /\ \E vcver \in VersionArgs : \E si \in {SystemInfo(vcver)} :
         /\ args' = [op |-> "SystemInfo", vcver |-> vcver]
         /\ ret' = si.ret
         /\ self' = [f \in DOMAIN si \ {"ret"} |-> si[f]]
    /\ pc' = "done"
    /\ UNCHANGED <<world, patched, env>>

\* EnvironmentInfo(arch, vcver, vcvermin) for some arguments of the given sets
Construct(archs, vers, mins) ==
    /\ pc = "start"
    /\ \E arch \in archs, vcver \in vers, vcvermin \in mins :
       \E ei \in {EnvironmentInfo(arch, vcver, vcvermin)} :
         /\ args' = [op |-> "EnvironmentInfo", arch |-> arch, vcver |-> vcver,
                     vcvermin |-> vcvermin]
         /\ ret' = ei.ret
         /\ self' = [f \in DOMAIN ei \ {"ret"} |-> ei[f]]
         /\ pc' = IF IsOk(ei.ret) THEN "constructed" ELSE "raised"
    /\ UNCHANGED <<world, patched, env>>

NewEnvironmentInfo == Construct(ArchArgs, VersionArgs, MinVersionArgs)

NextVersions == CallFindAvailables \/ NewSystemInfo \/ NewEnvironmentInfo

SpecVersions == InitVersions /\ [][NextVersions]_vars

(* What the registry holds, read off the inputs *)

VC7Path ==
    IF environ["processor_architecture"] = "x86"
    THEN "Software\\Microsoft\\VisualStudio\\SxS\\VC7"
    ELSE "Software\\Wow6432Node\\Microsoft\\VisualStudio\\SxS\\VC7"

VCForPythonPath ==
    IF environ["processor_architecture"] = "x86"
    THEN "Software\\Microsoft\\DevDiv\\VCForPython"
    ELSE "Software\\Wow6432Node\\Microsoft\\DevDiv\\VCForPython"

\* every value name and subkey name under the two keys, in any hive
EnumeratedNames ==
    UNION { UNION { {registry[h][k].values[i].name : i \in DOMAIN registry[h][k].values}
                    \cup Range(registry[h][k].subkeys) :
                    k \in {VC7Path, VCForPythonPath} \cap DOMAIN registry[h] } :
            h \in {"HKEY_USERS", "HKEY_CURRENT_USER", "HKEY_LOCAL_MACHINE",
                   "HKEY_CLASSES_ROOT"} }

\* the modelled names that write a number, and the number
NumericNames ==
    [n \in {"9", "9.0", "10.0", "12.0", "14.0"} |->
        CASE n = "9" -> 90 [] n = "9.0" -> 90 [] n = "10.0" -> 100
          [] n = "12.0" -> 120 [] n = "14.0" -> 140]

AvailableVersions == {NumericNames[n] : n \in EnumeratedNames \cap DOMAIN NumericNames}

MaxOf(S) == CHOOSE v \in S : \A w \in S : w <= v

FindDone == pc = "done" /\ "op" \in DOMAIN args /\ args.op = "find_availables_vcver"

SystemInfoDone == pc = "done" /\ "op" \in DOMAIN args /\ args.op = "SystemInfo"

\* C7: SystemInfo built without a version takes the highest available
\* version, and fails with 'No Microsoft Visual C++ version found' when none
\* is available; built with a version it takes that version and does not
\* enumerate the registry.
C7_SystemInfoVersion ==
    SystemInfoDone =>
        /\ (args.vcver = None /\ AvailableVersions = {}) =>
               ret = Raise("DistutilsPlatformError", "No Microsoft Visual C++ version found")
        /\ (args.vcver = None /\ AvailableVersions # {}) =>
               IsOk(ret) /\ self.vcver = MaxOf(AvailableVersions)
        /\ args.vcver # None =>
               IsOk(ret) /\ self.vcver = args.vcver.val /\ ~self.enumerated

\* C7 witness: no version asked for, 9.0, 10.0 and 14.0 available, 14.0 taken.
C7_Witness ==
    /\ SystemInfoDone
    /\ args.vcver = None
    /\ AvailableVersions = {90, 100, 140}
    /\ IsOk(ret)
    /\ self.vcver = 140
    /\ self.enumerated

EnvironmentInfoDone ==
    pc \in {"constructed", "raised"} /\ "op" \in DOMAIN args /\ args.op = "EnvironmentInfo"

NoSuitable == Raise("DistutilsPlatformError", "No suitable Microsoft Visual C++ version found")

\* the resolved version: the explicit one, else the highest discovered one
HasResolved == args.vcver # None \/ AvailableVersions # {}

Resolved == IF args.vcver # None THEN args.vcver.val ELSE MaxOf(AvailableVersions)

\* C8: EnvironmentInfo fails with 'No suitable Microsoft Visual C++ version
\* found' whenever a minimum version is given and the resolved version is
\* lower, and never for this reason when the resolved version is at least
\* the minimum (or no minimum is given).
C8_MinimumVersion ==
    EnvironmentInfoDone =>
        /\ (args.vcvermin # None /\ HasResolved /\ Resolved < args.vcvermin.val)
               => ret = NoSuitable
        /\ ret = NoSuitable
               => (args.vcvermin # None /\ HasResolved /\ Resolved < args.vcvermin.val)

\* C8 witness: vcvermin=14.0, no version asked for, only 9.0 discoverable.
C8_Witness ==
    /\ EnvironmentInfoDone
    /\ args.vcvermin = Some(140)
    /\ args.vcver = None
    /\ AvailableVersions = {90}
    /\ pc = "raised"
    /\ ret = NoSuitable

-----------------------------------------------------------------------------
(* PlatformInfo, on the constructed instance *)

\* self.pi.arch
pi_arch == self.arch

target_cpu == SliceFrom(pi_arch, Find(pi_arch, "_") + 1)

target_is_x86 == target_cpu = "x86"

\* s.replace(old, new) for a single character old
Replace(s, old, new) == StrJoin(Split(s, old), new)

current_dir(hidex86, x64) ==
    IF current_cpu = "x86" /\ hidex86 THEN ""
    ELSE IF current_cpu = "amd64" /\ x64 THEN "\\x64"
    ELSE "\\" \o current_cpu

TargetDirOfCurrent(hidex86, x64) == current_dir(hidex86, x64)

target_dir(hidex86, x64) ==
    IF target_cpu = "x86" /\ hidex86 THEN ""
    ELSE IF target_cpu = "amd64" /\ x64 THEN "\\x64"
    ELSE "\\" \o target_cpu

cross_dir(forcex86) ==
    LET path == target_dir(TRUE, FALSE)
        current == IF forcex86 THEN "x86" ELSE current_cpu
    IN  IF target_cpu # current_cpu THEN Replace(path, "\\", "\\" \o current \o "_")
        ELSE path

-----------------------------------------------------------------------------
(* SystemInfo, on the constructed instance.  A property that can raise is  *)
(* an outcome: Ok(value) or Raise(kind, message).                          *)

\* self.si.vcver, in tenths
si_vcver == self.vcver

WinDir == environ["WinDir"]

ProgramFiles == environ["ProgramFiles"]

ProgramFilesx86 == EnvGet("ProgramFiles(x86)", ProgramFiles)

\* a local name that no statement has assigned yet
Unbound == [found |-> FALSE, unbound |-> TRUE]

UnboundLocal(name) ==
    Raise("UnboundLocalError",
          "local variable '" \o name \o "' referenced before assignment")

NotIterable == Raise("TypeError", "'NoneType' object is not iterable")

RECURSIVE LoopLookup(_, _, _)
\* "for ...: x = self.ri.lookup(key, name); if x: break" over the probes
\* <<key, name>> from the i-th on; last is what x holds so far
LoopLookup(probes, i, last) ==
    IF i > Len(probes) THEN last
    ELSE CHOOSE r \in {IF Truthy(x) THEN x ELSE LoopLookup(probes, i + 1, x) :
                        x \in {lookup(probes[i][1], probes[i][2])}} : TRUE

RECURSIVE LastExisting(_, _, _)
\* "for ...: if os.path.isdir(d): sdkdir = d" over the candidates
LastExisting(candidates, i, sdkdir) ==
    IF i > Len(candidates) THEN sdkdir
    ELSE LastExisting(candidates, i + 1,
                      IF isdir(candidates[i]) THEN Some(candidates[i]) ELSE sdkdir)

VSInstallDir ==
    LET name == "Microsoft Visual Studio " \o Fmt01f(si_vcver)
        default == Join(ProgramFilesx86, name)
    IN  OrElse(lookup(ri_vs, Fmt01f(si_vcver)), default)

VCInstallDirGuessFirst(python_vc, registered) ==
    LET default == "Microsoft Visual Studio " \o Fmt01f(si_vcver) \o "\\VC"
        guess_vc == Join(ProgramFilesx86, default)
        result == IF isdir(guess_vc) THEN guess_vc
                  ELSE OrElse(registered, IF Truthy(python_vc)
                                          THEN Join(python_vc.val, "VC") ELSE guess_vc)
    IN  IF ~isdir(result)
        THEN Raise(PlatformError, "Microsoft Visual C++ directory not found")
        ELSE Ok(result)

VCInstallDirOf(python_vc, registered) ==
    LET default == "Microsoft Visual Studio " \o Fmt01f(si_vcver) \o "\\VC"
        guess_vc == Join(ProgramFilesx86, default)
        default_vc == IF Truthy(python_vc) THEN Join(python_vc.val, "VC") ELSE guess_vc
        result == OrElse(registered, default_vc)
    IN  IF ~isdir(result)
        THEN Raise(PlatformError, "Microsoft Visual C++ directory not found")
        ELSE Ok(result)

VCInstallDir ==
    CHOOSE r \in {VCInstallDirOf(python_vc, registered) :
                    python_vc \in {lookup(Join(ri_vc_for_python, Fmt01f(si_vcver)),
                                          "installdir")},
                    registered \in {lookup(ri_vc, Fmt01f(si_vcver))}} : TRUE

\* None where no branch returns
WindowsSdkVersion ==
    IF si_vcver <= 90 THEN Some(<<"7.0", "6.1", "6.0a">>)
    ELSE IF si_vcver = 100 THEN Some(<<"7.1", "7.0a">>)
    ELSE IF si_vcver = 110 THEN Some(<<"8.0", "8.0a">>)
    ELSE IF si_vcver = 120 THEN Some(<<"8.1", "8.1a">>)
    ELSE IF si_vcver >= 140 THEN Some(<<"10.0", "8.1">>)
    ELSE None

Missing(sdkdir) == ~Truthy(sdkdir) \/ ~isdir(sdkdir.val)

\* the second to the last step of WindowsSdkDir
SdkDirFromPython(sdkdir) ==
    IF ~Missing(sdkdir) THEN sdkdir
    ELSE CHOOSE r \in {IF Truthy(install_base) THEN Some(Join(install_base.val, "WinSDK"))
                       ELSE sdkdir :
                       install_base \in {lookup(Join(ri_vc_for_python, Fmt01f(si_vcver)),
                                                "installdir")}} : TRUE

SdkDirFromKits(vers, sdkdir) ==
    IF ~Missing(sdkdir) THEN sdkdir
    ELSE LastExisting([i \in DOMAIN vers |->
                          Join(ProgramFiles, "Microsoft SDKs\\Windows Kits\\"
                                             \o SliceTo(vers[i], RFind(vers[i], ".")))],
                      1, sdkdir)

SdkDirFromOld(vers, sdkdir) ==
    IF ~Missing(sdkdir) THEN sdkdir
    ELSE LastExisting([i \in DOMAIN vers |->
                          Join(ProgramFiles, "Microsoft SDKs\\Windows\\v" \o vers[i])],
                      1, sdkdir)

SdkDirOrPlatformSDK(sdkdir, vcdir) ==
    IF Truthy(sdkdir) THEN Ok(sdkdir.val)
    ELSE IF IsOk(vcdir) THEN Ok(Join(vcdir.val, "PlatformSDK"))
    ELSE vcdir

WindowsSdkDirOf(vers) ==
    CHOOSE r \in
        {SdkDirOrPlatformSDK(s4, VCInstallDir) :
           s4 \in {SdkDirFromOld(vers, s3) :
             s3 \in {SdkDirFromKits(vers, s2) :
               s2 \in {SdkDirFromPython(s1) :
                 s1 \in {LoopLookup([i \in DOMAIN vers |->
                                       <<Join(ri_windows_sdk, "v" \o vers[i]),
                                         "installationfolder">>],
                                    1, Some(""))}}}}} : TRUE

WindowsSdkDir ==
    IF WindowsSdkVersion = None THEN NotIterable
    ELSE WindowsSdkDirOf(WindowsSdkVersion.val)

NetFxSdkVersion == IF si_vcver >= 140 THEN <<"4.6.1", "4.6">> ELSE <<>>

\* the outcome holds None or a str
WindowsSDKExecutablePath ==
    LET arch == IF si_vcver <= 110 THEN ""
                ELSE current_dir(si_vcver <= 120, TRUE)
        fx == (IF si_vcver <= 110 THEN "WinSDK-NetFx35Tools" ELSE "WinSDK-NetFx40Tools")
              \o Replace(arch, "\\", "-")
        netfx == IF si_vcver >= 140
                 THEN [i \in DOMAIN NetFxSdkVersion |->
                          <<Join3(ri_netfx_sdk, NetFxSdkVersion[i], fx),
                            "installationfolder">>]
                 ELSE <<>>
    IN  IF WindowsSdkVersion = None THEN NotIterable
        ELSE LET vers == WindowsSdkVersion.val
                 regpaths == netfx \o
                     [i \in DOMAIN vers |->
                         <<Join3(ri_windows_sdk, "v" \o vers[i] \o "A", fx),
                           "installationfolder">>]
             IN  CHOOSE r \in {IF x = Unbound THEN UnboundLocal("execpath") ELSE Ok(x) :
                                x \in {LoopLookup(regpaths, 1, Unbound)}} : TRUE

FSharpInstallDir ==
    OrElse(lookup(Join(ri_visualstudio, Fmt01f(si_vcver) \o "\\Setup\\F#"), "productdir"),
           "")

UniversalCRTSdkDir ==
    LET vers == IF si_vcver >= 140 THEN <<"10", "81">> ELSE <<>>
    IN  CHOOSE r \in {IF x = Unbound THEN UnboundLocal("sdkdir") ELSE Ok(OrElse(x, "")) :
                       x \in {LoopLookup([i \in DOMAIN vers |->
                                            <<ri_windows_kits_roots, "kitsroot" \o vers[i]>>],
                                         1, Unbound)}} : TRUE

NetFxSdkDir ==
    CHOOSE r \in {IF x = Unbound THEN UnboundLocal("sdkdir") ELSE Ok(OrElse(x, "")) :
                   x \in {LoopLookup([i \in DOMAIN NetFxSdkVersion |->
                                        <<Join(ri_netfx_sdk, NetFxSdkVersion[i]),
                                          "kitsinstallationfolder">>],
                                     1, Unbound)}} : TRUE

FrameworkDir32 ==
    OrElse(lookup(ri_vc, "frameworkdir32"), Join(WinDir, "Microsoft.NET\\Framework"))

FrameworkDir64 ==
    OrElse(lookup(ri_vc, "frameworkdir64"), Join(WinDir, "Microsoft.NET\\Framework64"))

DotNetVersionsOf(ver) ==
    IF si_vcver = 80 THEN Ok(<<"v3.0", "v2.0.50727">>)
    ELSE IF si_vcver >= 120 THEN Ok(<<ver, "v4.0">>)
    ELSE IF si_vcver >= 100
    THEN Ok(<<IF SliceTo(Lower(ver), 2) # "v4" THEN "v4.0.30319" ELSE ver, "v3.5">>)
    ELSE IF si_vcver = 90 THEN Ok(<<"v3.5", "v2.0.50727">>)
    ELSE UnboundLocal("frameworkver")

\* SystemInfo._find_dot_net_versions
find_dot_net_versions(bits) ==
    CHOOSE r \in {DotNetVersionsOf(ver) :
                    ver \in {OrElse(lookup(ri_vc, "frameworkver" \o ToString(bits)), "")}} : TRUE

FrameworkVersion32 == find_dot_net_versions(32)

FrameworkVersion64 == find_dot_net_versions(64)

-----------------------------------------------------------------------------
(* EnvironmentInfo facets, on the constructed instance.  Each is an        *)
(* outcome holding the Python value the property returns.                  *)

\* the value of f on the value of o, or the exception o raised
Then(o, f(_)) == CHOOSE r \in {IF IsOk(x) THEN f(x.val) ELSE x : x \in {o}} : TRUE

\* [os.path.join(base, path) for path in paths]
JoinAll(base, paths) == [i \in DOMAIN paths |-> Join(base, paths[i])]

OkList(items) == Ok(PyList(items))

\* EnvironmentInfo._get_content_dirname
get_content_dirname(path) ==
    IF path \in DOMAIN listing
    THEN IF listing[path] # <<>> THEN listing[path][1] \o "\\" ELSE ""
    ELSE ""

VSTools ==
    LET paths == <<"Common7\\IDE", "Common7\\Tools">> \o
                 (IF si_vcver >= 140
                  THEN <<"Common7\\IDE\\CommonExtensions\\Microsoft\\TestWindow",
                         "Team Tools\\Performance Tools",
                         "Team Tools\\Performance Tools" \o current_dir(TRUE, TRUE)>>
                  ELSE <<>>)
    IN  CHOOSE r \in {OkList(JoinAll(d, paths)) : d \in {VSInstallDir}} : TRUE

VCIncludes ==
    Then(VCInstallDir,
         LAMBDA d : OkList(<<Join(d, "Include"), Join(d, "ATLMFC\\Include")>>))

VCLibraries ==
    LET arch_subdir == target_dir(TRUE, FALSE)
        paths == <<"Lib" \o arch_subdir, "ATLMFC\\Lib" \o arch_subdir>> \o
                 (IF si_vcver >= 140 THEN <<"Lib\\store" \o arch_subdir>> ELSE <<>>)
    IN  Then(VCInstallDir, LAMBDA d : OkList(JoinAll(d, paths)))

VCStoreRefs ==
    IF si_vcver < 140 THEN OkList(<<>>)
    ELSE Then(VCInstallDir, LAMBDA d : Ok(PyStr(Join(d, "Lib\\store\\references"))))

VCTools ==
    LET forcex86 == si_vcver <= 100
        arch_subdir == cross_dir(forcex86)
        last == IF cross_dir(FALSE) # "" /\ si_vcver >= 140
                THEN "Bin" \o current_dir(TRUE, FALSE)
                ELSE "Bin"
    IN  Then(VCInstallDir,
             LAMBDA d : OkList(JoinAll(d, <<"VCPackages", "Bin" \o arch_subdir, last>>)))

OSLibrariesOf(sdk) ==
    IF si_vcver <= 100
    THEN OkList(<<Join(sdk, "Bin" \o target_dir(TRUE, TRUE))>>)
    ELSE CHOOSE r \in
           {OkList(<<Join(lib, get_content_dirname(lib) \o "um" \o target_dir(FALSE, TRUE))>>) :
              lib \in {Join(sdk, "lib")}} : TRUE

OSLibraries == Then(WindowsSdkDir, OSLibrariesOf)

OSIncludesIn(include) ==
    IF si_vcver <= 100 THEN OkList(<<include, Join(include, "gl")>>)
    ELSE LET sdkver == IF si_vcver >= 140 THEN get_content_dirname(include) ELSE ""
         IN  OkList(<<Join(include, sdkver \o "shared"),
                      Join(include, sdkver \o "um"),
                      Join(include, sdkver \o "winrt")>>)

OSIncludes ==
    Then(WindowsSdkDir,
         LAMBDA sdk : CHOOSE r \in {OSIncludesIn(i) : i \in {Join(sdk, "include")}} : TRUE)

OSLibpathOf(sdk, ref) ==
    OkList(<<Join(ref, "CommonConfiguration\\Neutral")>> \o
           (IF si_vcver >= 140
            THEN <<ref,
                   Join(sdk, "UnionMetadata"),
                   Join(ref, "Windows.Foundation.UniversalApiContract\\1.0.0.0"),
                   Join(ref, "Windows.Foundation.FoundationContract\\1.0.0.0"),
                   Join(ref, "Windows.Networking.Connectivity.WwanContract\\1.0.0.0"),
                   Join(sdk, "ExtensionSDKs\\Microsoft.VCLibs\\" \o Fmt01f(si_vcver)
                             \o "\\References\\CommonConfiguration\\neutral")>>
            ELSE <<>>))

OSLibpath ==
    Then(WindowsSdkDir,
         LAMBDA sdk : CHOOSE r \in {OSLibpathOf(sdk, ref) :
                                      ref \in {Join(sdk, "References")}} : TRUE)

SdkToolsOf(sdk, execpath) ==
    OkList(<<Join(sdk, IF si_vcver <= 110 THEN "Bin" ELSE "Bin\\x86")>> \o
           (IF ~current_is_x86
            THEN <<Join(sdk, "Bin" \o current_dir(FALSE, TRUE))>> ELSE <<>>) \o
           (IF si_vcver = 100 \/ si_vcver = 110
            THEN <<Join(sdk, "Bin\\NETFX 4.0 Tools" \o
                             (IF target_is_x86 THEN "" ELSE current_dir(TRUE, TRUE)))>>
            ELSE <<>>) \o
           (IF Truthy(execpath) THEN <<execpath.val>> ELSE <<>>))

SdkTools ==
    Then(WindowsSdkDir,
         LAMBDA sdk : Then(WindowsSDKExecutablePath,
                           LAMBDA execpath : SdkToolsOf(sdk, execpath)))

SdkSetup == Then(WindowsSdkDir, LAMBDA sdk : OkList(<<Join(sdk, "Setup")>>))

FxTools ==
    LET include32 == IF si_vcver <= 100 THEN TRUE
                     ELSE target_is_x86 \/ current_is_x86
        include64 == IF si_vcver <= 100 THEN ~target_is_x86 /\ ~current_is_x86
                     ELSE current_cpu = "amd64" \/ target_cpu = "amd64"
        tools32 == IF include32
                   THEN Then(FrameworkVersion32,
                             LAMBDA vers : Ok(JoinAll(FrameworkDir32, vers)))
                   ELSE Ok(<<>>)
        tools64 == IF include64
                   THEN Then(FrameworkVersion64,
                             LAMBDA vers : Ok(JoinAll(FrameworkDir64, vers)))
                   ELSE Ok(<<>>)
    IN  Then(tools32, LAMBDA t32 : Then(tools64, LAMBDA t64 : OkList(t32 \o t64)))

NetFxSDKLibraries ==
    IF si_vcver < 140 THEN OkList(<<>>)
    ELSE Then(NetFxSdkDir,
              LAMBDA d : IF d = "" THEN OkList(<<>>)
                         ELSE OkList(<<Join(d, "lib\\um" \o target_dir(FALSE, TRUE))>>))

NetFxSDKIncludes ==
    IF si_vcver < 140 THEN OkList(<<>>)
    ELSE Then(NetFxSdkDir,
              LAMBDA d : IF d = "" THEN OkList(<<>>)
                         ELSE OkList(<<Join(d, "include\\um")>>))

VsTDb == CHOOSE r \in {OkList(<<Join(d, "VSTSDB\\Deploy")>>) : d \in {VSInstallDir}} : TRUE

MSBuild ==
    IF si_vcver < 120 THEN OkList(<<>>)
    ELSE LET path == "\\MSBuild\\" \o Fmt01f(si_vcver) \o "\\bin" \o current_dir(TRUE, FALSE)
         IN  OkList(<<Join(ProgramFilesx86, path), Join(ProgramFiles, path)>>)

HTMLHelpWorkshop ==
    IF si_vcver < 110 THEN OkList(<<>>)
    ELSE OkList(<<Join(ProgramFilesx86, "HTML Help Workshop"),
                  Join(ProgramFiles, "HTML Help Workshop")>>)

UCRTLibraries ==
    IF si_vcver < 140 THEN OkList(<<>>)
    ELSE Then(UniversalCRTSdkDir,
              LAMBDA d : CHOOSE r \in
                 {OkList(<<Join(lib, get_content_dirname(lib) \o "ucrt"
                                     \o target_dir(FALSE, TRUE))>>) :
                    lib \in {Join(d, "lib")}} : TRUE)

UCRTIncludes ==
    IF si_vcver < 140 THEN OkList(<<>>)
    ELSE Then(UniversalCRTSdkDir,
              LAMBDA d : CHOOSE r \in
                 {OkList(<<Join(include, get_content_dirname(include) \o "ucrt")>>) :
                    include \in {Join(d, "include")}} : TRUE)

FSharp ==
    IF si_vcver < 110 /\ si_vcver > 120 THEN OkList(<<>>)
    ELSE Ok(PyStr(FSharpInstallDir))

VCRuntimeRedist ==
    LET arch_subdir == target_dir(FALSE, TRUE)
        vcruntime == "redist" \o arch_subdir \o "\\Microsoft.VC" \o FmtD(si_vcver)
                     \o "0.CRT\\vcruntime" \o FmtD(si_vcver) \o "0.dll"
    IN  Then(VCInstallDir, LAMBDA d : Ok(Join(d, vcruntime)))

-----------------------------------------------------------------------------
(* EnvironmentInfo.return_env *)

FirstFailure(facets) ==
    CHOOSE i \in DOMAIN facets :
        ~IsOk(facets[i]) /\ \A j \in 1..(i - 1) : IsOk(facets[j])

\* one keyword argument of dict(...): the facets are read in order, then
\* handed to _build_paths; passed records the lists handed over
CategoryOf(name, facets) ==
    IF \E i \in DOMAIN facets : ~IsOk(facets[i])
    THEN [ret |-> facets[FirstFailure(facets)], passed |-> <<>>]
    ELSE LET lists == [i \in DOMAIN facets |-> facets[i].val]
         IN  [ret |-> build_paths(name, lists), passed |-> lists]

Category(name, facets) == CHOOSE r \in {CategoryOf(name, f) : f \in {facets}} : TRUE

WithRedistUnchecked(env4) ==
    IF si_vcver >= 140
    THEN Then(VCRuntimeRedist, LAMBDA dll : Ok(env4 @@ ("py_vcruntime_redist" :> dll)))
    ELSE Ok(env4)

\* env['py_vcruntime_redist'] = self.VCRuntimeRedist, where the test holds
WithRedist(env4) ==
    IF si_vcver >= 140
    THEN Then(VCRuntimeRedist,
              LAMBDA dll : Ok(IF isfile(dll)
                              THEN env4 @@ ("py_vcruntime_redist" :> dll)
                              ELSE env4))
    ELSE Ok(env4)

Returning(include, lib, libpath, path) ==
    [ret |-> WithRedist([include |-> include.ret.val, lib |-> lib.ret.val,
                         libpath |-> libpath.ret.val, path |-> path.ret.val]),
     passed |-> <<include.passed, lib.passed, libpath.passed, path.passed>>]

AfterLibpath(include, lib, libpath) ==
    IF ~IsOk(libpath.ret)
    THEN [ret |-> libpath.ret, passed |-> <<include.passed, lib.passed, libpath.passed>>]
    ELSE CHOOSE r \in
           {IF IsOk(path.ret) THEN Returning(include, lib, libpath, path)
            ELSE [ret |-> path.ret,
                  passed |-> <<include.passed, lib.passed, libpath.passed, path.passed>>] :
              path \in {Category("path", <<VCTools, VSTools, VsTDb, SdkTools, SdkSetup,
                                           FxTools, MSBuild, HTMLHelpWorkshop,
                                           FSharp>>)}} : TRUE

AfterLib(include, lib) ==
    IF ~IsOk(lib.ret) THEN [ret |-> lib.ret, passed |-> <<include.passed, lib.passed>>]
    ELSE CHOOSE r \in
           {AfterLibpath(include, lib, libpath) :
              libpath \in {Category("libpath", <<VCLibraries, FxTools, VCStoreRefs,
                                                 OSLibpath>>)}} : TRUE

AfterInclude(include) ==
    IF ~IsOk(include.ret) THEN [ret |-> include.ret, passed |-> <<include.passed>>]
    ELSE CHOOSE r \in
           {AfterLib(include, lib) :
              lib \in {Category("lib", <<VCLibraries, OSLibraries, FxTools,
                                         UCRTLibraries, NetFxSDKLibraries>>)}} : TRUE

\* the outcome of return_env, and the lists each _build_paths call was given
return_env ==
    CHOOSE r \in
      {AfterInclude(include) :
         include \in {Category("include", <<VCIncludes, OSIncludes, UCRTIncludes,
                                            NetFxSDKIncludes>>)}} : TRUE

-----------------------------------------------------------------------------
(* Specification SpecEnv: an EnvironmentInfo is constructed on a machine   *)
(* and then asked for return_env() or for one property.                    *)

Sep(b) == IF SubSeq(b, Len(b), Len(b)) = "\\" THEN "" ELSE "\\"

\* where the registry of the machine says Visual C++ is, where VC++ for
\* Python puts it, and where the code guesses it
RegisteredTrees == {"D:\\VS71\\VC\\", "D:\\VS9\\VC\\", "D:\\VS14\\VC\\"}

PythonTrees == {"E:\\VCForPython\\9.0\\VC"}

DefaultTrees ==
    {pf \o "\\Microsoft Visual Studio " \o v \o "\\VC" :
        pf \in {"C:\\Program Files", "C:\\Program Files (x86)"},
        v \in {"7.1", "9.0", "13.0", "14.0"}}

SdkTrees ==
    {"S:\\SDK\\v7.0\\", "S:\\SDK\\v7.0\\include", "S:\\Kits\\10\\",
     "S:\\Kits\\10\\include", "S:\\Kits\\10\\lib",
     "S:\\Kits\\10\\include\\10.0.10240.0\\um", "S:\\NETFXSDK\\4.6.1\\"}

Subdirs(b) == {b \o Sep(b) \o n : n \in {"Include", "Lib", "Lib\\amd64", "Bin"}}

\* the root of the current drive and the current directory are directories
\* on every machine; X:\env is the one the category variables name
AlwaysDirs == {"\\", ".", "X:\\env"}

RuntimeDlls ==
    {b \o Sep(b) \o "redist\\" \o a \o "\\Microsoft.VC140.CRT\\vcruntime140.dll" :
        b \in {"D:\\VS14\\VC\\", "C:\\Program Files\\Microsoft Visual Studio 14.0\\VC",
               "C:\\Program Files (x86)\\Microsoft Visual Studio 14.0\\VC"},
        a \in {"x86", "x64"}}

\* the values of the VC7 key in HKEY_LOCAL_MACHINE: no key, both compilers
\* registered, values left empty, only Visual C++ 7.1 registered
VC7Values ==
    { <<>>,
      <<RegKey(<<RegValue("9.0", "D:\\VS9\\VC\\"), RegValue("14.0", "D:\\VS14\\VC\\"),
                 RegValue("frameworkver32", "v4.0.30319")>>, <<>>)>>,
      <<RegKey(<<RegValue("9.0", ""), RegValue("14.0", "")>>, <<>>)>>,
      <<RegKey(<<RegValue("7.1", "D:\\VS71\\VC\\")>>, <<>>)>> }

EmptyHive == [k \in {} |-> RegKey(<<>>, <<>>)]

OneValue(name, data) == RegKey(<<RegValue(name, data)>>, <<>>)

\* HKEY_CURRENT_USER with Visual C++ for Python 9.0 installed
PythonHive ==
    (ri_vc_for_python :> RegKey(<<>>, <<"9.0">>)) @@
    (Join(ri_vc_for_python, "9.0") :> OneValue("installdir", "E:\\VCForPython\\9.0"))

\* HKEY_LOCAL_MACHINE entries of the Windows and .NET SDKs, Visual Studio
\* and F#
SdkHive ==
    (Join(ri_windows_sdk, "v7.0") :> OneValue("installationfolder", "S:\\SDK\\v7.0\\")) @@
    (Join(ri_windows_sdk, "v10.0") :> OneValue("installationfolder", "S:\\Kits\\10\\")) @@
    (ri_windows_kits_roots :> OneValue("kitsroot10", "S:\\Kits\\10\\")) @@
    (Join(ri_netfx_sdk, "4.6.1") :>
        OneValue("kitsinstallationfolder", "S:\\NETFXSDK\\4.6.1\\")) @@
    (ri_vs :> OneValue("14.0", "D:\\VS14\\")) @@
    (Join(ri_visualstudio, "14.0\\Setup\\F#") :> OneValue("productdir", "F:\\FSharp\\"))

MachineRegistry(vc7, python, sdk) ==
    [h \in Hives |->
        IF h = "HKEY_CURRENT_USER" THEN (IF python THEN PythonHive ELSE EmptyHive)
        ELSE IF h = "HKEY_LOCAL_MACHINE"
        THEN (IF vc7 = <<>> THEN EmptyHive ELSE (ri_vc :> vc7[1])) @@
             (IF sdk THEN SdkHive ELSE EmptyHive)
        ELSE EmptyHive]

MachineEnviron(cpu, set) ==
    BaseEnviron(cpu) @@
    (IF cpu = "x86" THEN <<>> ELSE ("ProgramFiles(x86)" :> "C:\\Program Files (x86)")) @@
    (IF set THEN [n \in CategoryNames |-> "X:\\env"] ELSE <<>>)

MachineDirs(trees, subdirs, sdk) ==
    AlwaysDirs \cup trees \cup (IF sdk THEN SdkTrees ELSE {}) \cup
    (IF subdirs THEN UNION {Subdirs(b) : b \in trees} ELSE {})

InitEnv ==
    /\ \E cpu \in CpuValues, set \in BOOLEAN : environ = MachineEnviron(cpu, set)
    /\ \E vc7 \in VC7Values, python \in BOOLEAN, sdk \in BOOLEAN :
         /\ registry = MachineRegistry(vc7, python, sdk)
         /\ \E t1 \in {{}, RegisteredTrees}, t2 \in {{}, PythonTrees},
               t3 \in {{}, DefaultTrees}, subdirs \in BOOLEAN :
              dirs = MachineDirs(t1 \cup t2 \cup t3, subdirs, sdk)
         /\ listing = IF sdk
                      THEN [p \in {"S:\\Kits\\10\\include", "S:\\Kits\\10\\lib"} |->
                               <<"10.0.10240.0">>]
                      ELSE <<>>
    /\ files \in {{}, RuntimeDlls}
    /\ args = <<>>
    /\ pc = "start"
    /\ self = <<>>
    /\ env = <<>>
    /\ ret = NoRet
    /\ unpatched = Unpatched
    /\ distutils = Imported(TRUE, TRUE)

\* versions asked for: none, and toolchains inside and outside the bands
\* that WindowsSdkVersion and _find_dot_net_versions list
RequestedVersions == {None, Some(71), Some(90), Some(130), Some(140)}

NewEnvironmentInfoOn == Construct(ArchArgs, RequestedVersions, {None})

CallReturnEnv ==
    /\ pc = "constructed"
    /\ \E r \in {return_env} :
         /\ args' = [op |-> "return_env", passed |-> r.passed]
         /\ ret' = r.ret
         /\ env' = IF IsOk(r.ret) THEN r.ret.val ELSE env
         /\ pc' = IF IsOk(r.ret) THEN "returned" ELSE "failed"
    /\ UNCHANGED <<world, patched, self>>

PropertyNames == {"VCInstallDir", "VCIncludes"}

Property(name) ==
    CASE name = "VCInstallDir" -> VCInstallDir
      [] name = "VCIncludes" -> VCIncludes
      [] name = "WindowsSdkVersion" -> Ok(WindowsSdkVersion)
      [] name = "WindowsSdkDir" -> WindowsSdkDir
      [] name = "FrameworkVersion32" -> FrameworkVersion32
      [] name = "FrameworkVersion64" -> FrameworkVersion64
      [] name = "VCStoreRefs" -> VCStoreRefs
      [] name = "UCRTLibraries" -> UCRTLibraries
      [] name = "UCRTIncludes" -> UCRTIncludes
      [] name = "NetFxSDKLibraries" -> NetFxSDKLibraries
      [] name = "NetFxSDKIncludes" -> NetFxSDKIncludes
      [] name = "MSBuild" -> MSBuild
      [] name = "HTMLHelpWorkshop" -> HTMLHelpWorkshop

GetProperty ==
    /\ pc = "constructed"
    /\ \E name \in PropertyNames : \E r \in {Property(name)} :
         /\ args' = [op |-> name]
         /\ ret' = r
    /\ pc' = "property"
    /\ UNCHANGED <<world, patched, self, env>>

NextEnv == NewEnvironmentInfoOn \/ CallReturnEnv \/ GetProperty

SpecEnv == InitEnv /\ [][NextEnv]_vars

(* What the machine holds, read off the inputs *)

VersionTextOf(v) ==
    CASE v = 71 -> "7.1"
      [] v = 80 -> "8.0"
      [] v = 90 -> "9.0"
      [] v = 100 -> "10.0"
      [] v = 110 -> "11.0"
      [] v = 120 -> "12.0"
      [] v = 130 -> "13.0"
      [] v = 140 -> "14.0"

VersionText ==
    CASE self.vcver = 71 -> "7.1"
      [] self.vcver = 90 -> "9.0"
      [] self.vcver = 130 -> "13.0"
      [] self.vcver = 140 -> "14.0"

\* <<data>> of the first hive in probe order that holds the key and the
\* named value, <<>> if none does
RegistryData(path, name) ==
    LET holds(h) == /\ path \in DOMAIN registry[h]
                    /\ \E e \in Range(registry[h][path].values) : e.name = name
        data(h) == (CHOOSE e \in Range(registry[h][path].values) : e.name = name).data
    IN  IF \E i \in DOMAIN ProbeOrder : holds(ProbeOrder[i])
        THEN <<data(ProbeOrder[CHOOSE i \in DOMAIN ProbeOrder :
                                  /\ holds(ProbeOrder[i])
                                  /\ \A j \in 1..(i - 1) : ~holds(ProbeOrder[j])])>>
        ELSE <<>>

RegisteredVC == RegistryData(VC7Path, VersionText)

PythonInstallDir == RegistryData(VCForPythonPath \o "\\" \o VersionText, "installdir")

DefaultVC ==
    (IF "ProgramFiles(x86)" \in DOMAIN environ THEN environ["ProgramFiles(x86)"]
     ELSE environ["ProgramFiles"])
    \o "\\Microsoft Visual Studio " \o VersionText \o "\\VC"

\* the directory chosen when a registry value counts once it is there
ChosenIfPresent ==
    IF RegisteredVC # <<>> THEN RegisteredVC[1]
    ELSE IF PythonInstallDir # <<>> THEN PythonInstallDir[1] \o "\\VC"
    ELSE DefaultVC

\* the directory chosen when a registry value counts once it is there and
\* not empty
ChosenIfNonEmpty ==
    IF RegisteredVC # <<>> /\ RegisteredVC[1] # "" THEN RegisteredVC[1]
    ELSE IF PythonInstallDir # <<>> /\ PythonInstallDir[1] # ""
    THEN PythonInstallDir[1] \o "\\VC"
    ELSE DefaultVC

AskedFor(name) == pc = "property" /\ args.op = name

VCInstallDirIs(chosen) ==
    /\ AskedFor("VCInstallDir") =>
         ret = IF chosen \in dirs THEN Ok(chosen)
               ELSE Raise("DistutilsPlatformError",
                          "Microsoft Visual C++ directory not found")
    /\ AskedFor("VCIncludes") /\ chosen \in dirs =>
         /\ IsOk(ret)
         /\ ret.val.type = "list"
         /\ chosen \o Sep(chosen) \o "Include" \in Range(ret.val.items)

\* C9: VCInstallDir is the VC7 registry value for the version
\* when that value is present and not empty, else <installdir>\VC when the
\* VCForPython key for the version has a non-empty installdir, else the
\* default under Program Files (x86); it raises 'Microsoft Visual C++
\* directory not found' exactly when the chosen path is not an existing
\* directory, and VCIncludes holds <chosen>\Include.
C9_VCInstallDir == VCInstallDirIs(ChosenIfNonEmpty)

\* only VC++ for Python 9.0 is registered and its tree exists
C9_Witness ==
    /\ AskedFor("VCIncludes")
    /\ self.vcver = 90
    /\ RegisteredVC = <<>>
    /\ PythonInstallDir = <<"E:\\VCForPython\\9.0">>
    /\ IsOk(ret)
    /\ "E:\\VCForPython\\9.0\\VC\\Include" \in Range(ret.val.items)

\* C9, with "present" read literally: a VC7 value that is present is the result, whatever it holds
C9_AsStated == VCInstallDirIs(ChosenIfPresent)

FourKeys == {"include", "lib", "libpath", "path"}

ExpectedDll ==
    ChosenIfNonEmpty \o Sep(ChosenIfNonEmpty) \o "redist\\"
    \o (IF self.arch = "x86" THEN "x86" ELSE "x64")
    \o "\\Microsoft.VC140.CRT\\vcruntime140.dll"

\* C3: when return_env returns, the mapping has the four keys include, lib,
\* libpath and path, each a non-empty ';'-joined string of existing
\* directories, and no other key but py_vcruntime_redist, which it has
\* exactly when the version is at least 14 and the runtime DLL path is an
\* existing file; when return_env raises, no mapping has been built.
C3_ReturnEnvMapping ==
    /\ pc = "returned" =>
         /\ IsOk(ret)
         /\ env = ret.val
         /\ FourKeys \subseteq DOMAIN env
         /\ DOMAIN env \subseteq FourKeys \cup {"py_vcruntime_redist"}
         /\ \A k \in FourKeys :
              /\ env[k] # ""
              /\ \A d \in Range(Split(env[k], ";")) : d \in dirs
         /\ "py_vcruntime_redist" \in DOMAIN env
              <=> (self.vcver >= 140 /\ ExpectedDll \in files)
         /\ "py_vcruntime_redist" \in DOMAIN env => env["py_vcruntime_redist"] = ExpectedDll
    /\ pc = "failed" => ~IsOk(ret) /\ env = <<>>

C3_Witness ==
    /\ pc = "returned"
    /\ "include" \notin DOMAIN environ
    /\ "py_vcruntime_redist" \in DOMAIN env
    /\ env["py_vcruntime_redist"]
         = "D:\\VS14\\VC\\redist\\x64\\Microsoft.VC140.CRT\\vcruntime140.dll"

\* C4 as stated: construction and return_env fail with DistutilsPlatformError
\* and a message, never with another kind of error
C4_OnlyPlatformErrors ==
    pc \in {"raised", "failed"} =>
        ret.exc = "DistutilsPlatformError" /\ ret.msg # ""

PassedFacets == UNION {Range(args.passed[c]) : c \in DOMAIN args.passed}

\* C10 as stated: every facet that return_env hands to _build_paths is a list
C10_FacetsAreLists ==
    pc \in {"returned", "failed"} => \A facet \in PassedFacets : facet.type = "list"

-----------------------------------------------------------------------------
(* Specification SpecPlatform: a PlatformInfo is constructed for an        *)
(* architecture spec and asked for one of its values.                      *)

PlatformCpus == {"x86", "AMD64", "IA64"}

ArchSpecs == {"x86", "AMD64", "x86_amd64", "amd64_x86", "x86_IA64", "x86_arm_64"}

InitPlatform ==
    /\ \E cpu \in PlatformCpus : environ = BaseEnviron(cpu)
    /\ registry = NoRegistry
    /\ dirs = {}
    /\ files = {}
    /\ listing = <<>>
    /\ args = <<>>
    /\ pc = "start"
    /\ self = <<>>
    /\ env = <<>>
    /\ ret = NoRet
    /\ unpatched = Unpatched
    /\ distutils = Imported(TRUE, TRUE)

\* PlatformInfo(arch)
NewPlatformInfo ==
    /\ pc = "start"
    /\ \E arch \in ArchSpecs :
         /\ args' = [op |-> "PlatformInfo", arch |-> arch]
         /\ self' = [arch |-> Lower(arch)]
    /\ ret' = Ok("PlatformInfo")
    /\ pc' = "constructed"
    /\ UNCHANGED <<world, patched, env>>

CallTargetCpu ==
    /\ pc = "constructed"
    /\ args' = [op |-> "target_cpu", arch |-> args.arch]
    /\ ret' = Ok(target_cpu)
    /\ pc' = "property"
    /\ UNCHANGED <<world, patched, self, env>>

CallCurrentDir ==
    /\ pc = "constructed"
    /\ \E hidex86 \in BOOLEAN, x64 \in BOOLEAN :
         /\ args' = [op |-> "current_dir", arch |-> args.arch,
                     hidex86 |-> hidex86, x64 |-> x64]
         /\ ret' = Ok(current_dir(hidex86, x64))
    /\ pc' = "property"
    /\ UNCHANGED <<world, patched, self, env>>

CallTargetDir ==
    /\ pc = "constructed"
    /\ \E hidex86 \in BOOLEAN, x64 \in BOOLEAN :
         /\ args' = [op |-> "target_dir", arch |-> args.arch,
                     hidex86 |-> hidex86, x64 |-> x64]
         /\ ret' = Ok(target_dir(hidex86, x64))
    /\ pc' = "property"
    /\ UNCHANGED <<world, patched, self, env>>

CallCrossDir ==
    /\ pc = "constructed"
    /\ \E forcex86 \in BOOLEAN :
         /\ args' = [op |-> "cross_dir", arch |-> args.arch, forcex86 |-> forcex86]
         /\ ret' = Ok(cross_dir(forcex86))
    /\ pc' = "property"
    /\ UNCHANGED <<world, patched, self, env>>

NextPlatform ==
    NewPlatformInfo \/ CallTargetCpu \/ CallCurrentDir \/ CallTargetDir \/ CallCrossDir

SpecPlatform == InitPlatform /\ [][NextPlatform]_vars

(* The CPUs, read off the inputs *)

\* the host CPU name as the environment gives it, in lower case
HostCpu ==
    CASE environ["processor_architecture"] = "x86" -> "x86"
      [] environ["processor_architecture"] = "AMD64" -> "amd64"
      [] environ["processor_architecture"] = "IA64" -> "ia64"

\* the architecture spec the PlatformInfo was made for, in lower case
SpecLower ==
    CASE args.arch = "x86" -> "x86"
      [] args.arch = "AMD64" -> "amd64"
      [] args.arch = "x86_amd64" -> "x86_amd64"
      [] args.arch = "amd64_x86" -> "amd64_x86"
      [] args.arch = "x86_IA64" -> "x86_ia64"
      [] args.arch = "x86_arm_64" -> "x86_arm_64"

AfterLastUnderscore(s) == SubSeq(s, RFind(s, "_") + 2, Len(s))

AfterFirstUnderscore(s) == SubSeq(s, Find(s, "_") + 2, Len(s))

\* C14: target_cpu is the lower-cased spec after its last underscore, the
\* whole lower-cased spec when it has none
C14_TargetCpuAfterLast ==
    AskedFor("target_cpu") => ret = Ok(AfterLastUnderscore(SpecLower))

\* '\<cpu>' with the two special cases, x86 with hidex86 first
DirOf(cpu, hidex86, x64) ==
    IF cpu = "x86" /\ hidex86 THEN ""
    ELSE IF cpu = "amd64" /\ x64 THEN "\\x64"
    ELSE "\\" \o cpu

\* C15: cross_dir(forcex86) is '' when the target CPU is the current CPU,
\* else '\<current>_<target>' with x86 for <current> when forcex86 is set
C15_CrossDir ==
    AskedFor("cross_dir") =>
        LET target == AfterFirstUnderscore(SpecLower)
        IN  ret = Ok(IF target = HostCpu THEN ""
                     ELSE "\\" \o (IF args.forcex86 THEN "x86" ELSE HostCpu)
                          \o "_" \o target)

\* C16: current_dir and target_dir give '' for x86 with hidex86, '\x64' for
\* amd64 with x64, else '\<cpu>', the x86 case first; current_dir reads the
\* current CPU and target_dir the target CPU
C16_CurrentAndTargetDir ==
    /\ AskedFor("current_dir") =>
         ret = Ok(DirOf(HostCpu, args.hidex86, args.x64))
    /\ AskedFor("target_dir") =>
         ret = Ok(DirOf(AfterFirstUnderscore(SpecLower), args.hidex86, args.x64))

\* a cross build from x86 to amd64 asks for the target folder with x64 set
C16_Witness ==
    /\ AskedFor("target_dir")
    /\ HostCpu = "x86"
    /\ args.arch = "x86_amd64"
    /\ args.hidex86 /\ args.x64
    /\ ret = Ok("\\x64")

-----------------------------------------------------------------------------
(* Specification SpecSdk: an EnvironmentInfo is constructed for a given    *)
(* version on a machine with Windows SDKs and is asked for one property.   *)

\* the VC7 key of HKEY_LOCAL_MACHINE: missing, reporting a .NET 4 framework,
\* reporting a .NET 2 framework
FrameworkValues ==
    { <<>>,
      <<RegKey(<<RegValue("frameworkver32", "v4.5.50709"),
                 RegValue("frameworkver64", "v4.5.50709")>>, <<>>)>>,
      <<RegKey(<<RegValue("frameworkver32", "v2.0.50727"),
                 RegValue("frameworkver64", "v2.0.50727")>>, <<>>)>> }

PythonSdkTrees == {"E:\\VCForPython\\9.0\\WinSDK"}

\* the conventional SDK directories on disk: none, the older one, both
KitsTrees ==
    { {},
      {"C:\\Program Files\\Microsoft SDKs\\Windows Kits\\8"},
      {"C:\\Program Files\\Microsoft SDKs\\Windows Kits\\10",
       "C:\\Program Files\\Microsoft SDKs\\Windows Kits\\8"} }

OldSdkTrees ==
    { {},
      {"C:\\Program Files\\Microsoft SDKs\\Windows\\v6.0a"},
      {"C:\\Program Files\\Microsoft SDKs\\Windows\\v7.0",
       "C:\\Program Files\\Microsoft SDKs\\Windows\\v6.0a"} }

InitSdk ==
    /\ \E cpu \in CpuValues : environ = MachineEnviron(cpu, FALSE)
    /\ \E vc7 \in FrameworkValues, python \in BOOLEAN, sdk \in BOOLEAN :
         /\ registry = MachineRegistry(vc7, python, sdk)
         /\ listing = IF sdk
                      THEN [p \in {"S:\\Kits\\10\\include", "S:\\Kits\\10\\lib"} |->
                               <<"10.0.10240.0">>]
                      ELSE <<>>
    /\ \E t1 \in {{}, SdkTrees}, t2 \in {{}, PythonSdkTrees},
          t3 \in KitsTrees, t4 \in OldSdkTrees :
         dirs = AlwaysDirs \cup DefaultTrees \cup t1 \cup t2 \cup t3 \cup t4
    /\ files = {}
    /\ args = <<>>
    /\ pc = "start"
    /\ self = <<>>
    /\ env = <<>>
    /\ ret = NoRet
    /\ unpatched = Unpatched
    /\ distutils = Imported(TRUE, TRUE)

\* toolchain versions inside and outside the bands the tables list
SdkVersions ==
    {Some(71), Some(80), Some(90), Some(100), Some(110), Some(120), Some(130),
     Some(140)}

NewEnvironmentInfoFor == Construct(ArchArgs, SdkVersions, {None})

SdkPropertyNames ==
    {"WindowsSdkVersion", "WindowsSdkDir", "FrameworkVersion32", "FrameworkVersion64",
     "VCStoreRefs", "UCRTLibraries", "UCRTIncludes", "NetFxSDKLibraries",
     "NetFxSDKIncludes", "MSBuild", "HTMLHelpWorkshop"}

GetSdkProperty ==
    /\ pc = "constructed"
    /\ \E name \in SdkPropertyNames : \E r \in {Property(name)} :
         /\ args' = [op |-> name]
         /\ ret' = r
    /\ pc' = "property"
    /\ UNCHANGED <<world, patched, self, env>>

NextSdk == NewEnvironmentInfoFor \/ GetSdkProperty

SpecSdk == InitSdk /\ [][NextSdk]_vars

(* What the tables and the machine hold, read off the inputs *)

GatedFacets ==
    {"VCStoreRefs", "UCRTLibraries", "UCRTIncludes", "NetFxSDKLibraries",
     "NetFxSDKIncludes", "MSBuild", "HTMLHelpWorkshop"}

Threshold(facet) ==
    CASE facet = "MSBuild" -> 120
      [] facet = "HTMLHelpWorkshop" -> 110
      [] OTHER -> 140

\* C11: a version-gated facet returns an empty list below its threshold
\* (14.0 for VCStoreRefs, UCRTLibraries, UCRTIncludes, NetFxSDKLibraries and
\* NetFxSDKIncludes, 12.0 for MSBuild, 11.0 for HTMLHelpWorkshop) and a
\* non-empty list at or above it
C11_GatedFacets ==
    \A facet \in GatedFacets :
        AskedFor(facet) /\ IsOk(ret) =>
            /\ ret.val.type = "list"
            /\ ret.val.items = <<>> <=> self.vcver < Threshold(facet)

\* the SDK versions of the five bands; <<>> for a version in none of them
BandSdkVersions ==
    IF self.vcver <= 90 THEN <<"7.0", "6.1", "6.0a">>
    ELSE IF self.vcver = 100 THEN <<"7.1", "7.0a">>
    ELSE IF self.vcver = 110 THEN <<"8.0", "8.0a">>
    ELSE IF self.vcver = 120 THEN <<"8.1", "8.1a">>
    ELSE IF self.vcver >= 140 THEN <<"10.0", "8.1">>
    ELSE <<>>

\* C12: WindowsSdkVersion is a non-empty tuple for every version, the one of
\* the band for a version in a band
C12_SdkVersionBands ==
    AskedFor("WindowsSdkVersion") =>
        /\ IsOk(ret)
        /\ ret.val.found
        /\ ret.val.val # <<>>
        /\ BandSdkVersions # <<>> => ret.val.val = BandSdkVersions

WindowsSdkPath ==
    IF environ["processor_architecture"] = "x86"
    THEN "Software\\Microsoft\\Microsoft SDKs\\Windows"
    ELSE "Software\\Wow6432Node\\Microsoft\\Microsoft SDKs\\Windows"

\* '10.0' -> '10'
MajorOf(ver) == SubSeq(ver, 1, Find(ver, "."))

FlatSeq(seqs) ==
    LET RECURSIVE flat(_)
        flat(i) == IF i > Len(seqs) THEN <<>> ELSE seqs[i] \o flat(i + 1)
    IN  flat(1)

\* the candidate locations of the Windows SDK in the order they are tried
SdkCandidates ==
    LET vers == BandSdkVersions
        python == RegistryData(VCForPythonPath \o "\\" \o Fmt01f(self.vcver), "installdir")
    IN  FlatSeq([i \in DOMAIN vers |->
                    RegistryData(WindowsSdkPath \o "\\v" \o vers[i], "installationfolder")])
        \o (IF python = <<>> THEN <<>> ELSE <<python[1] \o "\\WinSDK">>)
        \o [i \in DOMAIN vers |->
               environ["ProgramFiles"] \o "\\Microsoft SDKs\\Windows Kits\\"
               \o MajorOf(vers[i])]
        \o [i \in DOMAIN vers |->
               environ["ProgramFiles"] \o "\\Microsoft SDKs\\Windows\\v" \o vers[i]]

\* C13: WindowsSdkDir is the first of its candidates (registry per SDK
\* version, VCForPython WinSDK, newer conventional path per SDK version,
\* older conventional path per SDK version) that is an existing directory
C13_FirstExistingSdkDir ==
    AskedFor("WindowsSdkDir") /\ BandSdkVersions # <<>> =>
        LET existing == SelectSeq(SdkCandidates, LAMBDA d : d \in dirs)
        IN  existing # <<>> => ret = Ok(existing[1])

\* the frameworkver<bits> value of the VC7 key, <<>> if there is none
ReportedFramework ==
    RegistryData(VC7Path, IF args.op = "FrameworkVersion32" THEN "frameworkver32"
                          ELSE "frameworkver64")

IsModern(reported) == reported # <<>> /\ SubSeq(reported[1], 1, 2) \in {"v4", "V4"}

\* C17: _find_dot_net_versions returns a pair of non-empty identifiers; the
\* first is the registry's frameworkver<bits> when that is a v4 version,
\* otherwise the pair is ('v4.0.30319', 'v3.5') from 10.0 to below 12.0,
\* ('v3.5', 'v2.0.50727') for 9.0 and ('v3.0', 'v2.0.50727') for 8.0
C17_DotNetVersions ==
    AskedFor("FrameworkVersion32") \/ AskedFor("FrameworkVersion64") =>
        /\ IsOk(ret)
        /\ Len(ret.val) = 2
        /\ ret.val[1] # "" /\ ret.val[2] # ""
        /\ IF IsModern(ReportedFramework) /\ self.vcver >= 100
           THEN ret.val[1] = ReportedFramework[1]
           ELSE /\ self.vcver >= 100 /\ self.vcver < 120 => ret.val = <<"v4.0.30319", "v3.5">>
                /\ self.vcver = 90 => ret.val = <<"v3.5", "v2.0.50727">>
                /\ self.vcver = 80 => ret.val = <<"v3.0", "v2.0.50727">>

-----------------------------------------------------------------------------
(* msvc9_query_vcvarsall, msvc14_get_vc_env and _augment_exception *)

\* sub in s
Contains(s, sub) ==
    \E i \in 1..(Len(s) - Len(sub) + 1) : SubSeq(s, i, i + Len(sub) - 1) = sub

\* the message _augment_exception computes
AugmentedMessage(message, version, arch) ==
    LET msdownload == "www.microsoft.com/download/details.aspx?id="
        required == "Microsoft Visual C++ " \o Fmt01f(version) \o " is required ("
                    \o message \o ")."
    IN  IF Contains(Lower(message), "vcvarsall") \/ Contains(Lower(message), "visual c")
        THEN IF version = 90
             THEN IF Contains(Lower(arch), "ia64")
                  THEN required \o " Get it with \"Microsoft Windows SDK 7.0\": "
                       \o msdownload \o "3138"
                  ELSE required \o " Get it from http://aka.ms/vcpython27"
             ELSE IF version = 100
             THEN required \o " Get it with \"Microsoft Windows SDK 7.1\": "
                  \o msdownload \o "8279"
             ELSE required
        ELSE message

\* _augment_exception(exc, version, arch): exc.args is a tuple, so the
\* closing assignment to exc.args[0] raises and the message is not stored
augment_exception(exc, version, arch) ==
    LET message == AugmentedMessage(exc.msg, version, arch)
    IN  Raise("TypeError", "'tuple' object does not support item assignment")

\* "except DistutilsPlatformError as exc: _augment_exception(...); raise"
\* around an outcome of the fallback; any other exception passes through
Reraise(outcome, version, arch) ==
    IF IsOk(outcome) THEN outcome
    ELSE IF outcome.exc = PlatformError THEN augment_exception(outcome, version, arch)
    ELSE outcome

\* what the saved distutils function does: it returns an environment, or
\* raises one of the two errors the replacements catch
OriginalOutcomes ==
    {Ok("vcvarsall"),
     Raise(PlatformError, "Unable to find vcvarsall.bat"),
     Raise("ValueError", "['path']")}

\* the original is tried; where it raises, the fallback object is
\* constructed with the given arguments
TryOriginal(op, original, arch, vcver, vcvermin, version) ==
    \E ei \in {EnvironmentInfo(arch, vcver, vcvermin)} :
      /\ args' = [op |-> op, arch |-> arch, version |-> version, original |-> original,
                  caught |-> IF IsOk(original) \/ IsOk(ei.ret) THEN NoRet ELSE ei.ret]
      /\ IF IsOk(original)
         THEN /\ ret' = original
              /\ pc' = "done"
              /\ self' = self
         ELSE IF IsOk(ei.ret)
         THEN /\ ret' = NoRet
              /\ pc' = "fallback"
              /\ self' = [f \in DOMAIN ei \ {"ret"} |-> ei[f]]
         ELSE /\ ret' = Reraise(ei.ret, version, arch)
              /\ pc' = "done"
              /\ self' = self

\* msvc9_query_vcvarsall(ver, arch) up to the construction of the fallback
CallQueryVcvarsall ==
    /\ pc = "start"
    /\ \E ver \in {90, 100}, arch \in {"x86", "x86_IA64"}, original \in OriginalOutcomes :
         TryOriginal("msvc9_query_vcvarsall", original, arch, Some(ver), None, ver)
    /\ UNCHANGED <<world, patched, env>>

\* msvc14_get_vc_env(plat_spec) up to the construction of the fallback
CallGetVcEnv ==
    /\ pc = "start"
    /\ \E plat_spec \in ArchArgs, original \in OriginalOutcomes \ {Raise("ValueError", "['path']")} :
         TryOriginal("msvc14_get_vc_env", original, plat_spec, None, Some(140), 140)
    /\ UNCHANGED <<world, patched, env>>

\* ....return_env() of the fallback, and the except clause around it
FallbackReturnEnv ==
    /\ pc = "fallback"
    /\ \E r \in {return_env} :
         /\ args' = [args EXCEPT !.caught = IF IsOk(r.ret) THEN NoRet ELSE r.ret]
         /\ ret' = Reraise(r.ret, args.version,
                           IF args.op = "msvc9_query_vcvarsall" THEN args.arch ELSE "")
         /\ env' = IF IsOk(r.ret) THEN r.ret.val ELSE env
    /\ pc' = "done"
    /\ UNCHANGED <<world, patched, self>>

InitFallback ==
    /\ \E cpu \in CpuValues : environ = MachineEnviron(cpu, FALSE)
    /\ \E vc7 \in VC7Values, python \in BOOLEAN :
         registry = MachineRegistry(vc7, python, FALSE)
    /\ \E t1 \in {{}, RegisteredTrees}, t2 \in {{}, PythonTrees}, subdirs \in BOOLEAN :
         dirs = MachineDirs(t1 \cup t2, subdirs, FALSE)
    /\ listing = <<>>
    /\ files = {}
    /\ args = <<>>
    /\ pc = "start"
    /\ self = <<>>
    /\ env = <<>>
    /\ ret = NoRet
    /\ unpatched = Unpatched
    /\ distutils = Imported(TRUE, TRUE)

NextFallback == CallQueryVcvarsall \/ CallGetVcEnv \/ FallbackReturnEnv

SpecFallback == InitFallback /\ [][NextFallback]_vars

\* C18: when the original step and the fallback both fail, the fallback
\* with a platform error, the caller gets that platform error with the
\* message _augment_exception computes: 'Microsoft Visual C++ <version> is
\* required (<message>).' and the remediation text for a message naming
\* 'vcvarsall' or 'visual c', the message unchanged otherwise
C18_ReraisedPlatformError ==
    pc = "done" /\ args.caught # NoRet /\ args.caught.exc = "DistutilsPlatformError" =>
        LET arch == IF args.op = "msvc9_query_vcvarsall" THEN args.arch ELSE ""
            message == args.caught.msg
            required == "Microsoft Visual C++ " \o VersionTextOf(args.version)
                        \o " is required (" \o message \o ")."
        IN  /\ ret.exc = "DistutilsPlatformError"
            /\ ret.msg =
                 IF message = "INCLUDE environment variable is empty" THEN message
                 ELSE IF args.version = 90 /\ arch = "x86_IA64"
                 THEN required \o " Get it with \"Microsoft Windows SDK 7.0\": www.microsoft.com/download/details.aspx?id=3138"
                 ELSE IF args.version = 90
                 THEN required \o " Get it from http://aka.ms/vcpython27"
                 ELSE IF args.version = 100
                 THEN required \o " Get it with \"Microsoft Windows SDK 7.1\": www.microsoft.com/download/details.aspx?id=8279"
                 ELSE required

-----------------------------------------------------------------------------
(* patch_for_specialized_compiler and the hooked find_vcvarsall *)

\* The functions of this module that replace distutils' own.
Replacement(name) == "setuptools.msvc9_support." \o name

\* 'distutils' in globals(): line 6 imports distutils.errors unconditionally,
\* which binds the name.
DistutilsInGlobals == TRUE

\* One pair of statements of a try block (lines 54-55, 56-57, 63-64):
\*     unpatched[key] = module.attr
\*     module.attr = replacement
\* s.raised says that an earlier statement of the block raised, so that this
\* pair is skipped. Reading module.attr raises NameError when the import of
\* the module failed, AttributeError when the module lacks the attribute;
\* nothing is stored then.
Hook(s, key, module, attr, replacement) ==
    IF s.raised THEN s
    ELSE IF module \notin DOMAIN s.distutils THEN [s EXCEPT !.raised = TRUE]
    ELSE IF attr \notin DOMAIN s.distutils[module] THEN [s EXCEPT !.raised = TRUE]
    ELSE [unpatched |-> (key :> s.distutils[module][attr]) @@ s.unpatched,
          distutils |-> [s.distutils EXCEPT ![module][attr] = replacement],
          raised    |-> FALSE]

\* "except: pass": the next block starts afresh
Passed(s) == [s EXCEPT !.raised = FALSE]

\* lines 52-66: the two try blocks
PatchBlocks(u, d) ==
    LET s0 == [unpatched |-> u, distutils |-> d, raised |-> FALSE]
        s1 == Hook(s0, "msvc9_find_vcvarsall", "msvc9compiler", "find_vcvarsall",
                   Replacement("msvc9_find_vcvarsall"))
        s2 == Hook(s1, "msvc9_query_vcvarsall", "msvc9compiler", "query_vcvarsall",
                   Replacement("msvc9_query_vcvarsall"))
        s3 == Hook(Passed(s2), "msv14_get_vc_env", "msvc14compiler", "_get_vc_env",
                   Replacement("msvc14_get_vc_env"))
    IN  [unpatched |-> s3.unpatched, distutils |-> s3.distutils, pc |-> "done"]

\* the function without its "already patched" return
PatchingAgain(u, d) == PatchBlocks(u, d)

\* patch_for_specialized_compiler, on the module state (u, d); pc is the
\* return it left by
patch_for_specialized_compiler(u, d) ==
    IF ~DistutilsInGlobals
    THEN [unpatched |-> u, distutils |-> d, pc |-> "not available"]
    ELSE IF u # <<>>
    THEN [unpatched |-> u, distutils |-> d, pc |-> "already patched"]
    ELSE PatchBlocks(u, d)

\* Reg.get_value of distutils.msvc9compiler: the first hive of HKEYS whose
\* key has the value; KeyError (None here) when there is none
get_value(key, name) == lookup(key, name)

VC_BASE(node, version) ==
    "Software\\" \o node \o "Microsoft\\DevDiv\\VCForPython\\" \o Fmt01f(version)

\* lines 91-103: the installation directory VCForPython registered
ProductDir(version) ==
    LET user == get_value(VC_BASE("", version), "installdir")
        all  == get_value(VC_BASE("Wow6432Node\\", version), "installdir")
    IN  IF user.found THEN user ELSE IF all.found THEN all ELSE None

\* unpatched[key](...), where the original would return 'original': a key
\* never saved raises KeyError, and a saved replacement calls itself with the
\* same arguments until the interpreter's recursion limit
CallUnpatched(key, replacement, original) ==
    IF key \notin DOMAIN unpatched THEN Raise("KeyError", key)
    ELSE IF unpatched[key] = replacement
    THEN Raise("RecursionError", "maximum recursion depth exceeded")
    ELSE Ok(original)

\* msvc9_find_vcvarsall(version)
msvc9_find_vcvarsall(version, original) ==
    LET productdir == ProductDir(version)
        vcvarsall  == Join(productdir.val, "vcvarsall.bat")
    IN  IF Truthy(productdir) /\ isfile(vcvarsall)
        THEN Ok(Some(vcvarsall))
        ELSE CallUnpatched("msvc9_find_vcvarsall",
                           Replacement("msvc9_find_vcvarsall"), original)

\* msvc9compiler.find_vcvarsall(version), whichever function the name holds
find_vcvarsall(version, original) ==
    IF distutils["msvc9compiler"]["find_vcvarsall"]
           = Original("msvc9compiler", "find_vcvarsall")
    THEN Ok(original)
    ELSE msvc9_find_vcvarsall(version, original)

-----------------------------------------------------------------------------
(* Specification SpecPatch: patching distutils, and distutils calling
   find_vcvarsall, in any order and any number of times *)

\* what distutils' own find_vcvarsall answers: None, or the path it found
OriginalFinds == {None, Some("D:\\VS9\\VC\\vcvarsall.bat")}

FindVersions == {90, 100}

VCForPythonFiles == {"E:\\VCForPython\\9.0\\vcvarsall.bat"}

InitPatch ==
    /\ \E cpu \in CpuValues : environ = MachineEnviron(cpu, FALSE)
    /\ \E python \in BOOLEAN : registry = MachineRegistry(<<>>, python, FALSE)
    /\ dirs = MachineDirs({}, FALSE, FALSE)
    /\ listing = <<>>
    /\ \E present \in BOOLEAN : files = IF present THEN VCForPythonFiles ELSE {}
    /\ args = <<>>
    /\ pc = "start"
    /\ self = <<>>
    /\ env = <<>>
    /\ ret = NoRet
    /\ unpatched = Unpatched
    /\ \E has9 \in BOOLEAN, has14 \in BOOLEAN : distutils = Imported(has9, has14)

CallPatch ==
    /\ \E r \in {patch_for_specialized_compiler(unpatched, distutils)} :
         /\ unpatched' = r.unpatched
         /\ distutils' = r.distutils
         /\ pc' = r.pc
    /\ args' = [op |-> "patch_for_specialized_compiler"]
    /\ ret' = Ok(None)
    /\ UNCHANGED <<world, self, env>>

CallFindVcvarsall ==
    /\ "msvc9compiler" \in DOMAIN distutils
    /\ \E version \in FindVersions, original \in OriginalFinds :
         /\ args' = [op |-> "find_vcvarsall", version |-> version,
                     original |-> original]
         /\ \E r \in {find_vcvarsall(version, original)} : ret' = r
    /\ pc' = "done"
    /\ UNCHANGED <<world, patched, self, env>>

NextPatch == CallPatch \/ CallFindVcvarsall

SpecPatch == InitPatch /\ [][NextPatch]_vars

\* the hooks of lines 54-64: the key of 'unpatched', the attribute hooked
\* and the replacement put in its place
Hooks ==
    { [key |-> "msvc9_find_vcvarsall", module |-> "msvc9compiler",
       attr |-> "find_vcvarsall",
       original |-> Original("msvc9compiler", "find_vcvarsall"),
       replacement |-> Replacement("msvc9_find_vcvarsall")],
      [key |-> "msvc9_query_vcvarsall", module |-> "msvc9compiler",
       attr |-> "query_vcvarsall",
       original |-> Original("msvc9compiler", "query_vcvarsall"),
       replacement |-> Replacement("msvc9_query_vcvarsall")],
      [key |-> "msv14_get_vc_env", module |-> "msvc14compiler",
       attr |-> "_get_vc_env",
       original |-> Original("_msvccompiler", "_get_vc_env"),
       replacement |-> Replacement("msvc14_get_vc_env")] }

\* every saved entry is the original function of its hook
SavedOriginals ==
    /\ DOMAIN unpatched \subseteq {h.key : h \in Hooks}
    /\ \A h \in Hooks : h.key \in DOMAIN unpatched => unpatched[h.key] = h.original

\* wherever a replacement is installed, its fallback finds the original
FallbackReachesOriginal ==
    \A h \in Hooks :
        (h.module \in DOMAIN distutils /\ distutils[h.module][h.attr] = h.replacement)
            => (h.key \in DOMAIN unpatched /\ unpatched[h.key] = h.original)

\* a call of find_vcvarsall that was not answered from VCForPython's
\* registration was answered by distutils' own function
FindFellBack ==
    (pc = "done" /\ args.op = "find_vcvarsall")
        => /\ IsOk(ret)
           /\ (ret.val = args.original
               \/ (ret.val.found /\ ret.val.val \in VCForPythonFiles))

\* C19: whatever the two compiler modules' availability and however often
\* patch_for_specialized_compiler is called, every entry of 'unpatched' is
\* the original distutils function, every installed replacement falls back
\* to that original and never to itself, and a call made once 'unpatched'
\* is filled changes neither 'unpatched' nor the hooked functions.
C19_PatchedOnce ==
    /\ [](SavedOriginals /\ FallbackReachesOriginal /\ FindFellBack)
    /\ [][unpatched # <<>> => UNCHANGED patched]_vars

\* a second call of the patch function returned early, all three functions
\* being hooked
C19_Witness ==
    /\ pc = "already patched"
    /\ DOMAIN unpatched = {h.key : h \in Hooks}
    /\ \A h \in Hooks : distutils[h.module][h.attr] = h.replacement

====
